---- MODULE Spec2Model ----
(***************************************************************************)
(* Model of the Leviton load-center integration: the energy accountant     *)
(* (energy.py), the readings the sensors present (sensor.py) and the       *)
(* live-connection manager (websocket.py).                                 *)
(*                                                                         *)
(* Energy values are fixed-point integers.  One unit is a third of         *)
(* 0.001 kWh, so that readings with more than three decimals exist and     *)
(* round(x, 3) is not the identity.  Python's None is the integer -1       *)
(* (energy readings are never negative).  A Python dict is a function      *)
(* whose DOMAIN is the set of keys present.                                *)
(***************************************************************************)
EXTENDS Integers, Sequences, FiniteSets, TLC

VARIABLES
  \* LevitonData: the device store
  whems, panels, breakers, cts, daily_baselines,
  \* EnergyTracker: the two persisted stores and the high-water table
  lifetime_store, baseline_store, energy_high_water,
  \* the clocks: the local date and the monotonic clock (seconds)
  today, now,
  \* WebSocketManager
  ws, last_ws_notification, reconnecting,
  ws_remove_notification, ws_remove_disconnect,
  keepalive_unsub, watchdog_unsub, bandwidth_unsub,
  conns, tasks, reauth,
  \* what the last operation was, what it was given and what it did
  \* (the data-changed notifications it fired, the dicts it handed to the
  \* update of a hub or a panel)
  op, arg, prev, ret, writes, fired, handed,
  \* history: the values clamp_increasing has been passed, by key, and the
  \* connections the watchdog found open and silent for more than the limit,
  \* and the handlers that have scheduled a reconnection task
  passed, tripped, reconnect_from,
  \* history: a shutdown of the manager has completed
  shut_down

storeVars == <<whems, panels, breakers, cts, daily_baselines>>
trackerVars == <<lifetime_store, baseline_store, energy_high_water>>
clockVars == <<today, now>>
wsVars == <<ws, last_ws_notification, reconnecting, ws_remove_notification,
            ws_remove_disconnect, keepalive_unsub, watchdog_unsub,
            bandwidth_unsub, conns, tasks, reauth>>
obsVars == <<op, arg, prev, ret, writes, fired, handed>>
histVars == <<passed, tripped, reconnect_from, shut_down>>
vars == <<storeVars, trackerVars, clockVars, wsVars, obsVars, histVars>>

\* The operation that ran called async_set_updated_data.
notified == fired > 0

None == -1
NoDict == <<>>

\* ---------------------------------------------------------------- bounds

\* The largest energy reading the upstream service reports (units).
MaxE == 6
\* The largest cached lifetime value a correction is still computed for.
MaxCached == 9
\* The largest value handed to clamp_increasing (units).
MaxClampValue == 4
\* The largest baseline calc_daily_energy is checked against, in 0.001 kWh.
MaxBaselineMilli == 6
\* The largest lifetime value handed to calc_daily_energy (units).
MaxLifetime == 40
\* The number of local days a run spans.
MaxDay == 1
\* The seconds between two observations of the monotonic clock.
ClockStep == 45
\* The last instant of the monotonic clock that is followed.
MaxNow == 135
\* The most push connections created in a run.
MaxConns == 3
\* The most handlers and background tasks in flight at once.
MaxTasks == 3
\* The most re-authentication requests in a run.
MaxReauth == 1

\* ------------------------------------------------------------- rounding

\* 0.001 kWh, the precision of round(x, 3), in units.
Milli == 3
\* 0.01 kWh, the precision of round(x, 2), in units.
Centi == 30

\* round(x, 3): the nearest multiple of 0.001 (no value of the grid is a tie).
Round3(x) == ((2 * x + Milli) \div (2 * Milli)) * Milli

\* round(x, 2): the nearest multiple of 0.01.  A value halfway between two
\* multiples is not exactly representable as a float, and which way the float
\* nearest to it rounds differs from value to value: both are outcomes.
Round2(x) ==
  LET lo == (x \div Centi) * Centi
      r == x - lo
  IN IF 2 * r < Centi THEN {lo}
     ELSE IF 2 * r > Centi THEN {lo + Centi}
     ELSE {lo, lo + Centi}

Max(a, b) == IF a >= b THEN a ELSE b

\* dict.get(key)
Get(d, k) == IF k \in DOMAIN d THEN d[k] ELSE None

\* v or 0
OrZero(v) == IF v = None THEN 0 ELSE v

\* What an operation found when it began.
Snapshot ==
  [ w |-> whems, p |-> panels,
    b |-> breakers, c |-> cts, stored |-> lifetime_store,
    baselines |-> daily_baselines, saved |-> baseline_store,
    high_water |-> energy_high_water, seen |-> last_ws_notification ]

\* ------------------------------------------------------ energy field tables

\* (ws_key, model_attr)
BREAKER_ENERGY_FIELDS ==
  { <<"energyConsumption", "energy_consumption">>,
    <<"energyConsumption2", "energy_consumption_2">>,
    <<"energyImport", "energy_import">> }

CT_ENERGY_FIELDS ==
  { <<"energyConsumption", "energy_consumption">>,
    <<"energyConsumption2", "energy_consumption_2">>,
    <<"energyImport", "energy_import">>,
    <<"energyImport2", "energy_import_2">> }

\* (model_attr, cache_key_suffix)
BREAKER_CACHE_FIELDS ==
  { <<"energy_consumption", "">>,
    <<"energy_consumption_2", "_2">>,
    <<"energy_import", "_import">> }

CT_CACHE_FIELDS ==
  { <<"energy_consumption", "">>,
    <<"energy_consumption_2", "_2">>,
    <<"energy_import", "_import">>,
    <<"energy_import_2", "_import_2">> }

\* The other payload keys the model carries, with the attribute
\* model.update() writes each to.
BreakerOtherKeys ==
  { <<"power", "power">>, <<"remoteTrip", "remote_trip">>,
    <<"currentState", "current_state">> }
CtOtherKeys == { <<"activePower", "active_power">> }
WhemOwnKeys == { <<"rmsVoltageA", "rms_voltage_a">> }
PanelOwnKeys == { <<"rmsVoltage", "rms_voltage">> }

STATE_SOFTWARE_TRIP == "SoftwareTrip"

KeysOf(fields) == { f[1] : f \in fields }
AttrOf(fields, k) == (CHOOSE f \in fields : f[1] = k)[2]

\* model.update(data): every payload key the model knows is written to its
\* attribute; the other attributes keep their values.
Update(model, data, fields) ==
  [ a \in DOMAIN model |->
      IF \E k \in DOMAIN data \cap KeysOf(fields) : AttrOf(fields, k) = a
      THEN data[CHOOSE k \in DOMAIN data \cap KeysOf(fields) : AttrOf(fields, k) = a]
      ELSE model[a] ]

\* ------------------------------------------------- energy.py: live values

AcceptsAtHalf(raw, attrValue) ==
  LET current == IF attrValue = None THEN 0 ELSE attrValue
  IN current = 0 \/ 2 * raw >= current

\* The test of _normalize_energy: raw is a lifetime total (or a first value).
IsLifetimeTotal(raw, attrValue) ==
  LET current == IF attrValue = None THEN 0 ELSE attrValue
  IN current = 0 \/ 2 * raw > current

\* _normalize_energy: an accepted energy value is rounded to 3 decimals, a
\* delta is deleted from the payload; every other key is left alone.
NormalizeEnergy(ws_data, model, fields) ==
  LET known == { k \in DOMAIN ws_data \cap KeysOf(fields) : ws_data[k] # None }
      dropped == { k \in known :
                     ~IsLifetimeTotal(ws_data[k], model[AttrOf(fields, k)]) }
  IN [ k \in DOMAIN ws_data \ dropped |->
         IF k \in known THEN Round3(ws_data[k]) ELSE ws_data[k] ]

normalize_breaker_energy(breaker_data, breaker) ==
  NormalizeEnergy(breaker_data, breaker, BREAKER_ENERGY_FIELDS)

normalize_ct_energy(ct_data, ct) ==
  NormalizeEnergy(ct_data, ct, CT_ENERGY_FIELDS)

\* ---------------------------------------- energy.py: correcting REST deltas

IsDeltaAtHalf(rest_val, cached_val) ==
  cached_val # None /\ 2 * rest_val <= cached_val

\* The first test of _correct_device_energy: the fresh reading is a delta.
IsDelta(rest_val, cached_val) ==
  cached_val # None /\ 2 * rest_val < cached_val

CorrectedValueDropsCached(cached_val, rest_val) == Round3(rest_val)

\* corrected = round(cached_val + rest_val, 3)
CorrectedValue(cached_val, rest_val) == Round3(cached_val + rest_val)

\* The second test: the fresh reading is the first one or a new maximum.
IsNewMax(rest_val, cached_val) == cached_val = None \/ rest_val > cached_val

\* f"{key_prefix}{device_id}{key_suffix}"
CacheKey(key_prefix, device_id, key_suffix) ==
  key_prefix \o device_id \o key_suffix

\* The cache fields of a device whose reading is corrected (deltas) and the
\* ones whose reading is stored as it is (news).
DeltaFields(device_id, device, stored, fields, key_prefix) ==
  { f \in fields :
      /\ device[f[1]] # None
      /\ IsDelta(device[f[1]], Get(stored, CacheKey(key_prefix, device_id, f[2]))) }

NewMaxFields(device_id, device, stored, fields, key_prefix) ==
  { f \in fields \ DeltaFields(device_id, device, stored, fields, key_prefix) :
      /\ device[f[1]] # None
      /\ IsNewMax(device[f[1]], Get(stored, CacheKey(key_prefix, device_id, f[2]))) }

\* _correct_device_energy: the device and the cache it leaves, and whether
\* it wrote to the cache.
CorrectDeviceEnergy(device_id, device, stored, fields, key_prefix) ==
  LET deltas == DeltaFields(device_id, device, stored, fields, key_prefix)
      news == NewMaxFields(device_id, device, stored, fields, key_prefix)
      key(f) == CacheKey(key_prefix, device_id, f[2])
      corrected(f) == CorrectedValue(stored[key(f)], device[f[1]])
      written == { key(f) : f \in deltas \cup news }
  IN [ device |->
         [ a \in DOMAIN device |->
             IF \E f \in deltas : f[1] = a
             THEN corrected(CHOOSE f \in deltas : f[1] = a)
             ELSE device[a] ],
       stored |->
         [ k \in DOMAIN stored \cup written |->
             IF \E f \in deltas : key(f) = k
             THEN corrected(CHOOSE f \in deltas : key(f) = k)
             ELSE IF \E f \in news : key(f) = k
             THEN device[(CHOOSE f \in news : key(f) = k)[1]]
             ELSE stored[k] ],
       changed |-> written # {} ]

\* The loop of correct_energy_values over one kind of device.
RECURSIVE CorrectDevices(_, _, _, _, _)
CorrectDevices(ids, devices, stored, fields, key_prefix) ==
  IF ids = {} THEN [ devices |-> devices, stored |-> stored, changed |-> FALSE ]
  ELSE LET id == CHOOSE i \in ids : TRUE
           one == CorrectDeviceEnergy(id, devices[id], stored, fields, key_prefix)
           rest == CorrectDevices(ids \ {id}, [devices EXCEPT ![id] = one.device],
                                  one.stored, fields, key_prefix)
       IN [ rest EXCEPT !.changed = one.changed \/ rest.changed ]

\* A record a Store was asked to save.
Saved(store, data) == [ store |-> store, data |-> data ]

\* EnergyTracker.correct_energy_values
CorrectEnergyValues ==
  LET bs == CorrectDevices(DOMAIN breakers, breakers, lifetime_store,
                           BREAKER_CACHE_FIELDS, "")
      cs == CorrectDevices(DOMAIN cts, cts, bs.stored, CT_CACHE_FIELDS, "ct_")
      changed == bs.changed \/ cs.changed
  IN /\ op = "idle"
     /\ \A k \in DOMAIN lifetime_store : lifetime_store[k] <= MaxCached
     /\ breakers' = bs.devices
     /\ cts' = cs.devices
     /\ lifetime_store' = IF changed THEN cs.stored ELSE lifetime_store
     /\ writes' = IF changed THEN << Saved("lifetime_energy", cs.stored) >> ELSE <<>>
     /\ op' = "correct_energy_values"
     /\ arg' = NoDict
     /\ prev' = Snapshot
     /\ ret' = None
     /\ fired' = 0
     /\ handed' = <<>>
     /\ UNCHANGED <<whems, panels, daily_baselines, baseline_store,
                    energy_high_water, clockVars, wsVars, histVars>>

\* _collect_device_energy: the known readings of a device, under its keys.
CollectDeviceEnergy(device_id, device, stored, fields, key_prefix) ==
  LET known == { f \in fields : device[f[1]] # None }
      key(f) == CacheKey(key_prefix, device_id, f[2])
  IN [ k \in DOMAIN stored \cup { key(f) : f \in known } |->
         IF \E f \in known : key(f) = k
         THEN device[(CHOOSE f \in known : key(f) = k)[1]]
         ELSE stored[k] ]

RECURSIVE CollectDevices(_, _, _, _, _)
CollectDevices(ids, devices, stored, fields, key_prefix) ==
  IF ids = {} THEN stored
  ELSE LET id == CHOOSE i \in ids : TRUE
       IN CollectDevices(ids \ {id}, devices,
                         CollectDeviceEnergy(id, devices[id], stored, fields, key_prefix),
                         fields, key_prefix)

\* The dict save_lifetime_energy builds from the device store.
LifetimeEnergy ==
  CollectDevices(DOMAIN cts, cts,
                 CollectDevices(DOMAIN breakers, breakers, NoDict,
                                BREAKER_CACHE_FIELDS, ""),
                 CT_CACHE_FIELDS, "ct_")

\* EnergyTracker.save_lifetime_energy
SaveLifetimeEnergy ==
  /\ op = "idle"
  /\ lifetime_store' = LifetimeEnergy
  /\ writes' = << Saved("lifetime_energy", LifetimeEnergy) >>
  /\ op' = "save_lifetime_energy"
  /\ arg' = NoDict
  /\ prev' = Snapshot
  /\ ret' = None
  /\ fired' = 0
  /\ handed' = <<>>
  /\ UNCHANGED <<storeVars, baseline_store, energy_high_water, clockVars,
                 wsVars, histVars>>

\* A refresh over REST replaces a device by the one fetched: the reading of
\* the field attr, one the service reports for this device, is now value.
RestFetchOn(kind, id, attr, value) ==
  /\ op = "idle"
  /\ IF kind = "breaker"
     THEN /\ id \in DOMAIN breakers
          /\ breakers[id][attr] # None
          /\ breakers' = [breakers EXCEPT ![id][attr] = value]
          /\ UNCHANGED cts
     ELSE /\ id \in DOMAIN cts
          /\ cts[id][attr] # None
          /\ cts' = [cts EXCEPT ![id][attr] = value]
          /\ UNCHANGED breakers
  /\ UNCHANGED <<whems, panels, daily_baselines, trackerVars, clockVars,
                 wsVars, obsVars, histVars>>

\* ------------------------------------------- energy.py: daily baselines

AsIs(daily) == daily

\* max(0.0, daily)
NonNegative(daily) == Max(0, daily)

\* calc_daily_energy, as the set of values the call can return.
CalcDailyEnergy(breaker_id, lifetime, baselines) ==
  IF lifetime = None THEN {None}
  ELSE IF Get(baselines, breaker_id) = None THEN {None}
  ELSE Round2(NonNegative(lifetime - baselines[breaker_id]))

CalcDailyEnergyOn(breaker_id, lifetime) ==
  /\ op = "idle"
  /\ ret' \in CalcDailyEnergy(breaker_id, lifetime, daily_baselines)
  /\ op' = "calc_daily_energy"
  /\ arg' = [ breaker_id |-> breaker_id, lifetime |-> lifetime ]
  /\ prev' = Snapshot
  /\ writes' = <<>>
  /\ fired' = 0
  /\ handed' = <<>>
  /\ UNCHANGED <<storeVars, trackerVars, clockVars, wsVars, histVars>>

SnapshotFirstPole(breaker) == Round3(breaker["energy_consumption"])

\* The baseline snapshot_daily_baselines records for a breaker.
SnapshotEnergy(breaker) ==
  Round3(breaker["energy_consumption"]
         + (IF breaker["poles"] = 2 THEN OrZero(breaker["energy_consumption_2"])
            ELSE 0))

\* f"ct_{ct_id}"
CtKey(ct_id) == "ct_" \o ct_id

\* snapshot_daily_baselines, as the baselines mapping it leaves.
SnapshotDailyBaselines(baselines, bs, cs) ==
  LET known == { id \in DOMAIN bs : bs[id]["energy_consumption"] # None }
  IN [ k \in DOMAIN baselines \cup known \cup { CtKey(id) : id \in DOMAIN cs } |->
         IF \E id \in DOMAIN cs : CtKey(id) = k
         THEN LET ct == cs[CHOOSE id \in DOMAIN cs : CtKey(id) = k]
              IN Round3(OrZero(ct["energy_consumption"])
                        + OrZero(ct["energy_consumption_2"]))
         ELSE IF k \in known THEN SnapshotEnergy(bs[k])
         ELSE baselines[k] ]

\* The record _save_baselines persists.
BaselineRecord(baselines) == [ date |-> today, baselines |-> baselines ]

AnyDate(stored_date, date) == TRUE

\* stored_date == today
IsToday(stored_date, date) == stored_date = date

\* EnergyTracker.load_daily_baselines
LoadedBaselines ==
  LET stored == baseline_store
      snapshot == SnapshotDailyBaselines(daily_baselines, breakers, cts)
  IN IF stored # NoDict /\ IsToday(Get(stored, "date"), today)
     THEN /\ daily_baselines' = (IF "baselines" \in DOMAIN stored
                                 THEN stored["baselines"] ELSE NoDict)
          /\ writes' = <<>>
          /\ UNCHANGED baseline_store
     ELSE /\ daily_baselines' = snapshot
          /\ baseline_store' = BaselineRecord(snapshot)
          /\ writes' = << Saved("daily_baselines", BaselineRecord(snapshot)) >>

\* EnergyTracker.load_daily_baselines called on its own.
LoadDailyBaselines ==
  /\ op = "idle"
  /\ daily_baselines = NoDict
  /\ LoadedBaselines
  /\ op' = "load_daily_baselines"
  /\ arg' = NoDict
  /\ prev' = Snapshot
  /\ ret' = None
  /\ fired' = 0
  /\ handed' = <<>>
  /\ UNCHANGED <<whems, panels, breakers, cts, lifetime_store,
                 energy_high_water, clockVars, wsVars, histVars>>

\* EnergyTracker.handle_midnight
HandleMidnight ==
  LET snapshot == SnapshotDailyBaselines(daily_baselines, breakers, cts)
  IN /\ op = "idle"
     /\ daily_baselines' = snapshot
     /\ baseline_store' = BaselineRecord(snapshot)
     /\ lifetime_store' = LifetimeEnergy
     /\ writes' = << Saved("daily_baselines", BaselineRecord(snapshot)),
                     Saved("lifetime_energy", LifetimeEnergy) >>
     /\ op' = "handle_midnight"
     /\ arg' = NoDict
     /\ prev' = Snapshot
     /\ ret' = None
     /\ fired' = 0
     /\ handed' = <<>>
     /\ UNCHANGED <<whems, panels, breakers, cts, energy_high_water,
                    clockVars, wsVars, histVars>>

\* The local date changes.
NextDay ==
  /\ op = "idle"
  /\ today < MaxDay
  /\ today' = today + 1
  /\ UNCHANGED <<storeVars, trackerVars, now, wsVars, obsVars, histVars>>

\* The process restarts: LevitonData and the EnergyTracker are built anew,
\* what the two Stores persisted stays.
Restart ==
  /\ op = "idle"
  /\ daily_baselines # NoDict \/ energy_high_water # NoDict
  /\ daily_baselines' = NoDict
  /\ energy_high_water' = NoDict
  /\ UNCHANGED <<whems, panels, breakers, cts, lifetime_store, baseline_store,
                 clockVars, wsVars, obsVars, histVars>>

\* ------------------------------------------ energy.py: the high-water mark

NeverDecrease(prev_mark, value) == FALSE

\* The test of clamp_increasing: the value is below the key's mark.
IsDecrease(prev_mark, value) == prev_mark # None /\ value < prev_mark

\* EnergyTracker.clamp_increasing(key, value)
ClampIncreasingOn(key, value) ==
  LET prev_mark == Get(energy_high_water, key)
  IN /\ op = "idle"
     /\ IF IsDecrease(prev_mark, value)
        THEN /\ ret' = prev_mark
             /\ UNCHANGED energy_high_water
        ELSE /\ energy_high_water' =
                  [ k \in DOMAIN energy_high_water \cup {key} |->
                      IF k = key THEN value ELSE energy_high_water[k] ]
             /\ ret' = value
     /\ passed' = [ k \in DOMAIN passed \cup {key} |->
                      IF k = key THEN (IF key \in DOMAIN passed THEN passed[key] ELSE {})
                                      \cup {value}
                      ELSE passed[k] ]
     /\ op' = "clamp_increasing"
     /\ arg' = [ key |-> key, value |-> value ]
     /\ prev' = Snapshot
     /\ writes' = <<>>
     /\ fired' = 0
     /\ handed' = <<>>
     /\ UNCHANGED <<storeVars, lifetime_store, baseline_store, clockVars, wsVars, tripped, reconnect_from, shut_down>>

\* ------------------------------------ websocket.py: connection lifecycle

\* The watchdog's silence limit, in seconds.
StaleSeconds == 90

\* delays = [10, 30, 60, 120, 300]
Delays == <<10, 30, 60, 120, 300>>

\* A LevitonWebSocket: connecting, open or closed, and whether the
\* manager's notification and disconnect callbacks are registered on it.
NewConn == [ state |-> "connecting", on_notification |-> FALSE, on_disconnect |-> FALSE ]
ClosedConn == [ state |-> "closed", on_notification |-> FALSE, on_disconnect |-> FALSE ]

\* ws.disconnect(), or the transport dropping the connection c.
CloseConn(cs, c) == [cs EXCEPT ![c] = ClosedConn]

\* if self._ws_remove_disconnect: self._ws_remove_disconnect()
RemoveDisconnectCallback(cs) ==
  IF ws_remove_disconnect # None
  THEN [cs EXCEPT ![ws_remove_disconnect].on_disconnect = FALSE]
  ELSE cs

\* A handler or background task suspended at an await: what it is, where
\* it waits, the connection it waits on and the reconnection attempt.
Task(kind, pc, conn, attempt) ==
  [ kind |-> kind, pc |-> pc, conn |-> conn, attempt |-> attempt ]

NoTask == Task("none", "none", None, 0)

Remove(ts, i) == SubSeq(ts, 1, i - 1) \o SubSeq(ts, i + 1, Len(ts))

\* The tasks after the task at i has moved on to t, or has ended.
Put(ts, i, t) == IF t = NoTask THEN Remove(ts, i) ELSE [ts EXCEPT ![i] = t]

\* The next round of the backoff loop, or its end after the last delay.
ReconnectNext(t) ==
  IF t.attempt < Len(Delays)
  THEN Task("reconnect", "sleeping", None, t.attempt + 1)
  ELSE NoTask

\* The setup is over as soon as connect() returns.
SetupEndsAtConnect(t, ws_after) ==
  IF t.kind = "reconnect" /\ ws_after = None THEN ReconnectNext(t) ELSE NoTask

\* Where a task goes when connect() returns to it with ws_after as the
\* connection reference: _reconnect returns on a connection and loops on
\* none, the setup goes on to load the daily baselines with the connection
\* connect() left it, the refresh is finished.
AfterConnect(t, ws_after) ==
  IF t.kind = "reconnect" /\ ws_after = None THEN ReconnectNext(t)
  ELSE IF t.kind = "setup" THEN Task("setup", "loading", ws_after, 0)
  ELSE NoTask

\* _reconnect has no finally clause.
FlagKept(t_old, t_new) == reconnecting

\* The finally clause of _reconnect: the flag as the task at t_old leaves it.
FlagAfter(t_old, t_new) ==
  IF t_old.kind = "reconnect" /\ t_new = NoTask THEN FALSE ELSE reconnecting

\* What a connection handler found when it began.
WsSnapshot ==
  [ ws |-> ws, last_ws_notification |-> last_ws_notification,
    reconnecting |-> reconnecting, conns |-> conns, tasks |-> tasks,
    timers |-> <<keepalive_unsub, watchdog_unsub, bandwidth_unsub>>,
    removers |-> <<ws_remove_notification, ws_remove_disconnect>>,
    reauth |-> reauth ]

\* What the handler that ran was, what it ran on and what it scheduled
\* (for a sleep that is over, the seconds slept).
WsObserve(name, a, scheduled) ==
  /\ op' = name
  /\ arg' = a
  /\ prev' = WsSnapshot
  /\ ret' = scheduled
  /\ writes' = <<>>
  /\ fired' = 0
  /\ handed' = <<>>

\* The connection handlers leave the device store, the energy tracker and
\* the local date alone.
WsFrame == UNCHANGED <<storeVars, trackerVars, today, histVars>>

\* _stop_keepalive
StopKeepalive ==
  /\ keepalive_unsub' = FALSE
  /\ watchdog_unsub' = FALSE
  /\ bandwidth_unsub' = FALSE

\* _start_keepalive
StartKeepalive ==
  /\ keepalive_unsub' = TRUE
  /\ watchdog_unsub' = TRUE
  /\ bandwidth_unsub' = (whems # NoDict)

\* The monotonic clock is read ClockStep seconds later.
Tick ==
  /\ op = "idle"
  /\ now + ClockStep <= MaxNow
  /\ now' = now + ClockStep
  /\ UNCHANGED <<storeVars, trackerVars, today, wsVars, obsVars, histVars>>

\* connect(), called by the first refresh, up to await self.ws.connect().
FirstConnect ==
  /\ op = "idle"
  /\ conns = <<>>
  /\ tasks = <<>>
  /\ conns' = Append(conns, NewConn)
  /\ ws' = Len(conns) + 1
  /\ tasks' = Append(tasks, Task("setup", "connecting", Len(conns) + 1, 0))
  /\ WsObserve("connect", NoDict, 0)
  /\ WsFrame
  /\ UNCHANGED <<now, last_ws_notification, reconnecting, ws_remove_notification,
                 ws_remove_disconnect, keepalive_unsub, watchdog_unsub,
                 bandwidth_unsub, reauth>>

\* What await self.ws.connect() can come back with.
ConnectOutcomes == { "connected", "LevitonConnectionError", "OSError" }

\* connect() resumes after await self.ws.connect() in the task at i. The
\* connection awaited is the task's own; the callbacks are registered on
\* whatever self.ws holds by then, and fail on None.
ConnectResult(i, outcome) ==
  LET t == tasks[i]
      refused == AfterConnect(t, None)
      raised == IF t.kind = "reconnect" THEN ReconnectNext(t) ELSE NoTask
  IN
  /\ op = "idle"
  /\ t.pc = "connecting"
  /\ \/ /\ outcome = "LevitonConnectionError"
        /\ conns' = CloseConn(conns, t.conn)
        /\ ws' = None
        /\ tasks' = Put(tasks, i, refused)
        /\ reconnecting' = FlagAfter(t, refused)
        /\ WsObserve("connect_refused", t, 0)
        /\ UNCHANGED <<last_ws_notification, ws_remove_notification, ws_remove_disconnect>>
     \/ /\ outcome = "OSError"
        /\ conns' = CloseConn(conns, t.conn)
        /\ tasks' = Put(tasks, i, raised)
        /\ reconnecting' = FlagAfter(t, raised)
        /\ WsObserve("connect_raised", t, 0)
        /\ UNCHANGED <<ws, last_ws_notification, ws_remove_notification, ws_remove_disconnect>>
     \/ /\ outcome = "connected"
        /\ conns[t.conn].state = "connecting"
        /\ last_ws_notification' = now
        /\ IF ws = None
           THEN /\ conns' = [conns EXCEPT ![t.conn].state = "open"]
                /\ tasks' = Remove(tasks, i)
                /\ reconnecting' = FlagAfter(t, NoTask)
                /\ WsObserve("connect_broke", t, 0)
                /\ UNCHANGED <<ws_remove_notification, ws_remove_disconnect>>
           ELSE /\ conns' = [c \in DOMAIN conns |->
                               LET opened == IF c = t.conn
                                             THEN [conns[c] EXCEPT !.state = "open"]
                                             ELSE conns[c]
                               IN IF c = ws /\ opened.state # "closed"
                                  THEN [opened EXCEPT !.on_notification = TRUE,
                                                      !.on_disconnect = TRUE]
                                  ELSE opened]
                /\ ws_remove_notification' = ws
                /\ ws_remove_disconnect' = ws
                /\ tasks' = [tasks EXCEPT ![i].pc = "subscribing"]
                /\ WsObserve("connected", t, 0)
                /\ UNCHANGED reconnecting
        /\ UNCHANGED ws
  /\ WsFrame
  /\ UNCHANGED <<now, keepalive_unsub, watchdog_unsub, bandwidth_unsub, reauth>>

\* connect() resumes after its bandwidth and subscribe calls in the task at
\* i: a subscribe on a cleared reference fails, otherwise the timers start
\* and connect() returns.
SubscribeDone(i) ==
  LET t == tasks[i]
      after == AfterConnect(t, ws)
  IN
  /\ op = "idle"
  /\ t.pc = "subscribing"
  /\ IF ws = None /\ (whems # NoDict \/ panels # NoDict)
     THEN /\ tasks' = Remove(tasks, i)
          /\ reconnecting' = FlagAfter(t, NoTask)
          /\ WsObserve("subscribe_broke", t, 0)
          /\ UNCHANGED <<keepalive_unsub, watchdog_unsub, bandwidth_unsub>>
     ELSE /\ StartKeepalive
          /\ tasks' = Put(tasks, i, after)
          /\ reconnecting' = FlagAfter(t, after)
          /\ WsObserve("subscribed", t, 0)
  /\ WsFrame
  /\ UNCHANGED <<now, ws, conns, last_ws_notification, ws_remove_notification,
                 ws_remove_disconnect, reauth>>

\* The setup resumes after connect() in the task at i: the daily baselines
\* are loaded and the first refresh is complete.
SetupLoaded(i) ==
  LET t == tasks[i]
  IN
  /\ op = "idle"
  /\ t.kind = "setup"
  /\ t.pc = "loading"
  /\ LoadedBaselines
  /\ tasks' = Remove(tasks, i)
  /\ op' = "setup_loaded"
  /\ arg' = t
  /\ prev' = WsSnapshot
  /\ ret' = 0
  /\ fired' = 0
  /\ handed' = <<>>
  /\ UNCHANGED <<whems, panels, breakers, cts, lifetime_store, energy_high_water,
                 clockVars, histVars>>
  /\ UNCHANGED <<ws, last_ws_notification, reconnecting, ws_remove_notification,
                 ws_remove_disconnect, keepalive_unsub, watchdog_unsub,
                 bandwidth_unsub, conns, reauth>>

\* The part of the proactive refresh and of the watchdog that drops the
\* connection: the disconnect callback is removed, both removal handles
\* are forgotten and ws.disconnect() is awaited by a task of that kind.
Teardown(kind) ==
  /\ Len(tasks) < MaxTasks
  /\ conns' = CloseConn(RemoveDisconnectCallback(conns), ws)
  /\ ws_remove_notification' = None
  /\ ws_remove_disconnect' = None
  /\ tasks' = Append(tasks, Task(kind, "disconnecting", ws, 0))
  /\ UNCHANGED <<ws, last_ws_notification, reconnecting, keepalive_unsub,
                 watchdog_unsub, bandwidth_unsub, reauth>>

\* _async_ws_refresh, fired by its timer, up to await self.ws.disconnect().
RefreshTick ==
  /\ op = "idle"
  /\ keepalive_unsub
  /\ IF ws = None
     THEN /\ WsObserve("refresh_skipped", NoDict, 0)
          /\ UNCHANGED wsVars
     ELSE /\ Teardown("refresh")
          /\ WsObserve("refresh_teardown", NoDict, 0)
  /\ WsFrame
  /\ UNCHANGED now

\* _async_ws_refresh resumes: the reference is cleared and connect() runs up
\* to await self.ws.connect().
RefreshResume(i) ==
  /\ op = "idle"
  /\ tasks[i].kind = "refresh"
  /\ tasks[i].pc = "disconnecting"
  /\ Len(conns) < MaxConns
  /\ conns' = Append(conns, NewConn)
  /\ ws' = Len(conns) + 1
  /\ tasks' = [tasks EXCEPT ![i] = Task("refresh", "connecting", Len(conns) + 1, 0)]
  /\ WsObserve("refresh_resumed", tasks[i], 0)
  /\ WsFrame
  /\ UNCHANGED <<now, last_ws_notification, reconnecting, ws_remove_notification,
                 ws_remove_disconnect, keepalive_unsub, watchdog_unsub,
                 bandwidth_unsub, reauth>>

\* The watchdog swaps the true limit for one that any silence exceeds.
AnySilence(silence) == TRUE

\* not (silence < 90)
IsSilent(silence) == ~(silence < StaleSeconds)

\* A reconnection task as async_create_background_task leaves it.
NewReconnect == Task("reconnect", "created", None, 0)

\* _async_ws_watchdog, fired by its timer, up to await self.ws.disconnect().
WatchdogTick ==
  /\ op = "idle"
  /\ watchdog_unsub
  /\ IF ws = None \/ reconnecting \/ ~IsSilent(now - last_ws_notification)
     THEN /\ WsObserve("watchdog_skipped", NoDict, 0)
          /\ UNCHANGED <<wsVars, tripped>>
     ELSE /\ Teardown("watchdog")
          /\ WsObserve("watchdog_teardown", NoDict, 0)
          /\ tripped' = IF conns[ws].state = "open"
                           /\ now - last_ws_notification > StaleSeconds
                        THEN tripped \cup {ws}
                        ELSE tripped
  /\ UNCHANGED <<storeVars, trackerVars, clockVars, passed, reconnect_from, shut_down>>

\* The reconnection guard lets every task through.
NeverInProgress(flag) == FALSE

\* if self._reconnecting / if not self._reconnecting
InProgress(flag) == flag

\* The tail shared by the watchdog and the disconnect handler: the
\* reference is cleared, the timers stop and a reconnection task is
\* created unless the flag is set. ts is the tasks without the caller.
ClearAndReconnect(ts) ==
  /\ ws' = None
  /\ StopKeepalive
  /\ tasks' = IF InProgress(reconnecting) THEN ts ELSE Append(ts, NewReconnect)
  /\ ret' = IF InProgress(reconnecting) THEN 0 ELSE 1
  /\ UNCHANGED <<last_ws_notification, reconnecting, reauth>>

\* _async_ws_watchdog resumes after await self.ws.disconnect().
WatchdogResume(i) ==
  /\ op = "idle"
  /\ tasks[i].kind = "watchdog"
  /\ tasks[i].pc = "disconnecting"
  /\ ClearAndReconnect(Remove(tasks, i))
  /\ reconnect_from' = IF InProgress(reconnecting) THEN reconnect_from
                       ELSE reconnect_from \cup {"watchdog"}
  /\ op' = "watchdog_done"
  /\ arg' = tasks[i]
  /\ prev' = WsSnapshot
  /\ writes' = <<>>
  /\ fired' = 0
  /\ handed' = <<>>
  /\ UNCHANGED <<storeVars, trackerVars, today, passed, tripped, shut_down>>
  /\ UNCHANGED <<now, conns, ws_remove_notification, ws_remove_disconnect>>

\* The transport loses the open connection c; _handle_ws_disconnect runs
\* when it is still registered on c.
TransportDisconnect(c) ==
  /\ op = "idle"
  /\ conns[c].state = "open"
  /\ conns' = CloseConn(conns, c)
  /\ IF conns[c].on_disconnect
     THEN /\ InProgress(reconnecting) \/ Len(tasks) < MaxTasks
          /\ ClearAndReconnect(tasks)
          /\ ws_remove_notification' = None
          /\ ws_remove_disconnect' = None
          /\ reconnect_from' = IF InProgress(reconnecting) THEN reconnect_from
                               ELSE reconnect_from \cup {"disconnect"}
          /\ op' = "ws_disconnect"
     ELSE /\ ret' = 0
          /\ op' = "ws_dropped"
          /\ UNCHANGED reconnect_from
          /\ UNCHANGED <<ws, tasks, last_ws_notification, reconnecting, reauth,
                         ws_remove_notification, ws_remove_disconnect,
                         keepalive_unsub, watchdog_unsub, bandwidth_unsub>>
  /\ arg' = c
  /\ prev' = WsSnapshot
  /\ writes' = <<>>
  /\ fired' = 0
  /\ handed' = <<>>
  /\ UNCHANGED <<storeVars, trackerVars, clockVars, passed, tripped, shut_down>>

\* _reconnect begins: it returns at once when a sequence is in progress,
\* and otherwise sets the flag and sleeps the first delay.
ReconnectStart(i) ==
  /\ op = "idle"
  /\ tasks[i].kind = "reconnect"
  /\ tasks[i].pc = "created"
  /\ IF InProgress(reconnecting)
     THEN /\ tasks' = Remove(tasks, i)
          /\ WsObserve("reconnect_skipped", tasks[i], 0)
          /\ UNCHANGED reconnecting
     ELSE /\ reconnecting' = TRUE
          /\ tasks' = [tasks EXCEPT ![i] = Task("reconnect", "sleeping", None, 1)]
          /\ WsObserve("reconnect_started", tasks[i], 0)
  /\ WsFrame
  /\ UNCHANGED <<now, ws, conns, last_ws_notification, ws_remove_notification,
                 ws_remove_disconnect, keepalive_unsub, watchdog_unsub,
                 bandwidth_unsub, reauth>>

\* await asyncio.sleep(delay) is over; get_permissions is awaited.
ReconnectWake(i) ==
  /\ op = "idle"
  /\ tasks[i].pc = "sleeping"
  /\ tasks' = [tasks EXCEPT ![i].pc = "validating"]
  /\ WsObserve("reconnect_woke", tasks[i], Delays[tasks[i].attempt])
  /\ WsFrame
  /\ UNCHANGED <<now, ws, conns, last_ws_notification, reconnecting,
                 ws_remove_notification, ws_remove_disconnect, keepalive_unsub,
                 watchdog_unsub, bandwidth_unsub, reauth>>

\* The sequence goes on to its next delay after an authentication failure.
RetryAfterAuthError(t) == ReconnectNext(t)

\* except LevitonAuthError: ...; return
AfterAuthError(t) == NoTask

\* The sequence ends when the API cannot be reached.
EndsWhenUnreachable(t) == NoTask

\* except LevitonConnectionError: ...; continue
AfterUnreachable(t) == ReconnectNext(t)

\* What await client.get_permissions() can come back with.
ValidateOutcomes == { "valid", "LevitonAuthError", "LevitonConnectionError" }

\* _reconnect resumes after the token check: an invalid token starts
\* re-authentication and ends the sequence, an unreachable API moves on to
\* the next delay, a valid token runs connect() up to await self.ws.connect().
ReconnectValidated(i, outcome) ==
  LET t == tasks[i]
      next == AfterUnreachable(t)
  IN
  /\ op = "idle"
  /\ t.pc = "validating"
  /\ \/ /\ outcome = "LevitonAuthError"
        /\ reauth < MaxReauth
        /\ reauth' = reauth + 1
        /\ tasks' = Put(tasks, i, AfterAuthError(t))
        /\ reconnecting' = FlagAfter(t, AfterAuthError(t))
        /\ WsObserve("reconnect_reauth", t, 0)
        /\ UNCHANGED <<ws, conns>>
     \/ /\ outcome = "LevitonConnectionError"
        /\ tasks' = Put(tasks, i, next)
        /\ reconnecting' = FlagAfter(t, next)
        /\ WsObserve("reconnect_unreachable", t, 0)
        /\ UNCHANGED <<ws, conns, reauth>>
     \/ /\ outcome = "valid"
        /\ Len(conns) < MaxConns
        /\ conns' = Append(conns, NewConn)
        /\ ws' = Len(conns) + 1
        /\ tasks' = [tasks EXCEPT ![i] = Task("reconnect", "connecting", Len(conns) + 1, t.attempt)]
        /\ WsObserve("reconnect_connecting", t, 0)
        /\ UNCHANGED <<reconnecting, reauth>>
  /\ WsFrame
  /\ UNCHANGED <<now, last_ws_notification, ws_remove_notification,
                 ws_remove_disconnect, keepalive_unsub, watchdog_unsub,
                 bandwidth_unsub>>

\* The awaits of _reconnect itself: the delay and the token check.
OwnAwaits == { "sleeping", "validating" }

\* The reconnection task at i is cancelled while it waits in the delay or
\* in the token check: CancelledError is raised at the await, logged and
\* re-raised, and the finally clause clears the flag.
ReconnectCancelled(i) ==
  LET t == tasks[i]
  IN
  /\ op = "idle"
  /\ t.kind = "reconnect"
  /\ t.pc \in OwnAwaits
  /\ tasks' = Put(tasks, i, NoTask)
  /\ reconnecting' = FlagAfter(t, NoTask)
  /\ WsObserve("reconnect_cancelled", t, "CancelledError")
  /\ WsFrame
  /\ UNCHANGED <<now, ws, conns, last_ws_notification, ws_remove_notification,
                 ws_remove_disconnect, keepalive_unsub, watchdog_unsub,
                 bandwidth_unsub, reauth>>

\* --------------------------------- coordinator.py: the polling refresh

\* The silence, in seconds, after which a poll no longer trusts a
\* connection that looks open.
StalePollSeconds == 180

\* The keys of a dict in the order the dict iterates them.
RECURSIVE KeySeq(_)
KeySeq(keys) ==
  IF keys = {} THEN <<>>
  ELSE LET k == CHOOSE k \in keys : TRUE IN <<k>> \o KeySeq(keys \ {k})

Fetch(call, id) == [ call |-> call, id |-> id ]

\* for whem_id in list(self.data.whems): get_whem, get_whem_breakers, get_cts
RECURSIVE HubFetches(_)
HubFetches(ids) ==
  IF ids = <<>> THEN <<>>
  ELSE << Fetch("get_whem", Head(ids)), Fetch("get_whem_breakers", Head(ids)),
          Fetch("get_cts", Head(ids)) >> \o HubFetches(Tail(ids))

\* for panel_id in list(self.data.panels): get_panel, get_panel_breakers
RECURSIVE PanelFetches(_)
PanelFetches(ids) ==
  IF ids = <<>> THEN <<>>
  ELSE << Fetch("get_panel", Head(ids)), Fetch("get_panel_breakers", Head(ids)) >>
       \o PanelFetches(Tail(ids))

\* The fetches of one REST poll, in the order they are awaited.
FetchPlan == HubFetches(KeySeq(DOMAIN whems)) \o PanelFetches(KeySeq(DOMAIN panels))

\* The devices of a store after one fetch has answered with the reading v:
\* the fetched device replaces the stored one.
ApplyFetch(store, f, v) ==
  LET fresh(devices, parent) ==
        [ id \in DOMAIN devices |->
            IF devices[id].iot_whem_id = parent
            THEN [devices[id] EXCEPT !.energy_consumption = v]
            ELSE devices[id] ]
  IN CASE f.call = "get_whem_breakers" -> [store EXCEPT !.b = fresh(store.b, f.id)]
       [] f.call = "get_cts" -> [store EXCEPT !.c = fresh(store.c, f.id)]
       [] f.call = "get_panel_breakers" -> [store EXCEPT !.b = fresh(store.b, "")]
       [] OTHER -> store

RECURSIVE ApplyFetches(_, _, _)
ApplyFetches(store, fetches, v) ==
  IF fetches = <<>> THEN store
  ELSE ApplyFetches(ApplyFetch(store, Head(fetches), v), Tail(fetches), v)

\* How a fetch can fail.
FetchFailures == { "LevitonAuthError", "LevitonConnectionError" }

\* The poll goes on with the remaining devices after a fetch has failed.
ContinuesAfter(plan, k) == plan

\* The fetches that are awaited when the k-th one fails (none fails: k = 0).
IssuedFetches(plan, k) == IF k = 0 THEN plan ELSE SubSeq(plan, 1, k)

\* The poll reports a transport failure whatever the failure was.
AlwaysUpdateFailed(k, failure) == IF k = 0 THEN "data" ELSE "UpdateFailed"

\* How the poll ends: except LevitonAuthError / except LevitonConnectionError
PollResult(k, failure) ==
  IF k = 0 THEN "data"
  ELSE IF failure = "LevitonAuthError" THEN "ConfigEntryAuthFailed" ELSE "UpdateFailed"

\* if self.ws is not None: ... silence > 180 ... else: return self.data
SkipsPoll ==
  /\ ws # None
  /\ ~(last_ws_notification > 0 /\ now - last_ws_notification > StalePollSeconds)

\* LevitonCoordinator._async_update_data: the k-th fetch fails with
\* `failure` (k = 0: none does) and the others answer with the reading v.
AsyncUpdateData(k, failure, v) ==
  LET plan == FetchPlan
      issued == IF SkipsPoll THEN <<>> ELSE IssuedFetches(plan, k)
      answered == IF k = 0 \/ issued = <<>> THEN issued ELSE SubSeq(issued, 1, k - 1)
      store == ApplyFetches([ w |-> whems, p |-> panels, b |-> breakers, c |-> cts ],
                            answered, v)
  IN /\ op = "idle"
     /\ k \in 0..Len(plan)
     /\ ws # None /\ ~SkipsPoll => Len(tasks) < MaxTasks
     /\ whems' = store.w
     /\ panels' = store.p
     /\ breakers' = store.b
     /\ cts' = store.c
     /\ tasks' = IF ws # None /\ ~SkipsPoll THEN Append(tasks, NewReconnect) ELSE tasks
     /\ op' = "async_update_data"
     /\ arg' = [ k |-> k, failure |-> failure, v |-> v ]
     /\ prev' = Snapshot
     /\ ret' = [ result |-> IF SkipsPoll THEN "data" ELSE PollResult(k, failure),
                 calls |-> issued ]
     /\ writes' = <<>>
     /\ fired' = 0
     /\ handed' = <<>>
     /\ UNCHANGED <<daily_baselines, trackerVars, clockVars, histVars>>
     /\ UNCHANGED <<ws, last_ws_notification, reconnecting, ws_remove_notification,
                    ws_remove_disconnect, keepalive_unsub, watchdog_unsub,
                    bandwidth_unsub, conns, reauth>>

\* ---------------------------------------------- websocket.py: shutdown

\* for panel_id in coordinator.data.panels: set_panel_bandwidth(enabled=False)
\* for whem_id in coordinator.data.whems: set_whem_bandwidth(bandwidth=0)
ShutdownPlan ==
  [ n \in 1..Len(KeySeq(DOMAIN panels)) |->
      Fetch("set_panel_bandwidth", KeySeq(DOMAIN panels)[n]) ]
  \o [ n \in 1..Len(KeySeq(DOMAIN whems)) |->
         Fetch("set_whem_bandwidth", KeySeq(DOMAIN whems)[n]) ]

\* What a bandwidth call of shutdown can come back with.
BandwidthOutcomes == { "ok" } \cup FetchFailures

\* self._ws_remove_notification() / self._ws_remove_disconnect()
RemoveCallbacks(cs) ==
  [ c \in DOMAIN cs |->
      [cs[c] EXCEPT !.on_notification = IF c = ws_remove_notification THEN FALSE ELSE @,
                    !.on_disconnect = IF c = ws_remove_disconnect THEN FALSE ELSE @] ]

\* Where shutdown is after `called` bandwidth calls have come back: at the
\* next one, at await self.ws.disconnect(), or at its end.
ShutdownNext(called) ==
  IF called < Len(ShutdownPlan) THEN Task("shutdown", "disabling", None, called + 1)
  ELSE IF ws # None THEN Task("shutdown", "disconnecting", ws, called)
  ELSE NoTask

\* except LevitonConnectionError: LOGGER.debug(...)
Tolerated(outcome) == outcome \in { "ok", "LevitonConnectionError" }

\* if self._ws_remove_notification: self._ws_remove_notification()
\* if self._ws_remove_disconnect: self._ws_remove_disconnect()
\* The number of removers shutdown calls.
RemoversInvoked ==
  (IF ws_remove_notification # None THEN 1 ELSE 0)
  + (IF ws_remove_disconnect # None THEN 1 ELSE 0)

\* shutdown() up to its first await: the callbacks are removed, the timers
\* are stopped and the first bandwidth call is awaited (or the disconnect,
\* when there is no device). self.coordinator.data is never None here: the
\* devices are discovered.
ShutdownStart ==
  LET next == ShutdownNext(0)
  IN
  /\ op = "idle"
  /\ \A i \in DOMAIN tasks : tasks[i].kind # "shutdown"
  /\ Len(tasks) < MaxTasks
  /\ ws_remove_notification' = None
  /\ ws_remove_disconnect' = None
  /\ StopKeepalive
  /\ conns' = IF next.pc = "disconnecting"
              THEN CloseConn(RemoveCallbacks(conns), ws)
              ELSE RemoveCallbacks(conns)
  /\ tasks' = Append(tasks, next)
  /\ WsObserve("shutdown", NoDict, RemoversInvoked)
  /\ WsFrame
  /\ UNCHANGED <<now, ws, last_ws_notification, reconnecting, reauth>>

\* shutdown() resumes after a bandwidth call in the task at i: a tolerated
\* outcome leads to the next call, to the disconnect or to the end; any
\* other failure leaves shutdown where it is.
ShutdownCall(i, outcome) ==
  LET t == tasks[i]
      next == ShutdownNext(t.attempt)
  IN
  /\ op = "idle"
  /\ t.kind = "shutdown"
  /\ t.pc = "disabling"
  /\ IF Tolerated(outcome)
     THEN /\ tasks' = Put(tasks, i, next)
          /\ conns' = IF next.pc = "disconnecting" THEN CloseConn(conns, ws) ELSE conns
          /\ WsObserve(IF next = NoTask THEN "shutdown_done" ELSE "shutdown_called",
                       [ calls |-> SubSeq(ShutdownPlan, 1, t.attempt), outcome |-> outcome ], 0)
     ELSE /\ tasks' = Remove(tasks, i)
          /\ conns' = conns
          /\ WsObserve("shutdown_raised",
                       [ calls |-> SubSeq(ShutdownPlan, 1, t.attempt), outcome |-> outcome ], 0)
  /\ shut_down' = (shut_down \/ (Tolerated(outcome) /\ next = NoTask))
  /\ UNCHANGED <<storeVars, trackerVars, today, passed, tripped, reconnect_from>>
  /\ UNCHANGED <<now, ws, last_ws_notification, reconnecting, ws_remove_notification,
                 ws_remove_disconnect, keepalive_unsub, watchdog_unsub,
                 bandwidth_unsub, reauth>>

\* shutdown() resumes after await self.ws.disconnect(): self.ws = None
ShutdownDisconnected(i) ==
  LET t == tasks[i]
  IN
  /\ op = "idle"
  /\ t.kind = "shutdown"
  /\ t.pc = "disconnecting"
  /\ ws' = None
  /\ tasks' = Remove(tasks, i)
  /\ WsObserve("shutdown_done",
               [ calls |-> SubSeq(ShutdownPlan, 1, t.attempt), outcome |-> "ok" ], 0)
  /\ shut_down' = TRUE
  /\ UNCHANGED <<storeVars, trackerVars, today, passed, tripped, reconnect_from>>
  /\ UNCHANGED <<now, conns, last_ws_notification, reconnecting, ws_remove_notification,
                 ws_remove_disconnect, keepalive_unsub, watchdog_unsub,
                 bandwidth_unsub, reauth>>

\* ----------------------------------- websocket.py: the firmware threshold

\* whem.version is None
NoVersion == <<>>

\* A version string is carried as the pieces version.split(".") yields.
\* The pieces int(x) accepts, and its value for each; any other piece
\* raises ValueError.
Numerals == { "0", "1", "2", "3", "7", "13" }
IntOf(x) ==
  CASE x = "0" -> 0 [] x = "1" -> 1 [] x = "2" -> 2 [] x = "3" -> 3
    [] x = "7" -> 7 [] x = "13" -> 13

\* tuple(int(x) for x in version.split(".")) does not raise.
Parseable(version) == \A n \in DOMAIN version : version[n] \in Numerals

VersionParts(version) == [ n \in DOMAIN version |-> IntOf(version[n]) ]

\* The threshold (2, 0, 0)
FW_THRESHOLD == << 2, 0, 0 >>

\* a >= b on tuples of integers: the first differing element decides, and
\* a tuple that is a prefix of the other is the smaller one.
RECURSIVE TupleGe(_, _)
TupleGe(a, b) ==
  IF b = <<>> THEN TRUE
  ELSE IF a = <<>> THEN FALSE
  ELSE IF Head(a) # Head(b) THEN Head(a) > Head(b)
  ELSE TupleGe(Tail(a), Tail(b))

\* needs_individual_breaker_subs(whem), from whem.version
needs_individual_breaker_subs(version) ==
  IF version = NoVersion THEN TRUE
  ELSE IF ~Parseable(version) THEN TRUE
  ELSE TupleGe(VersionParts(version), FW_THRESHOLD)

\* ------------------------------------ websocket.py: connect's subscriptions

\* An awaited call of connect(): the function, the device, the bandwidth
\* value or the model name subscribed to, and how the call came back.
SubCall(fn, id, value) == [ fn |-> fn, id |-> id, value |-> value, outcome |-> "ok" ]

\* The calls of a hub's try block, the subscription first.
SubscribesFirst(whem_id) ==
  << SubCall("subscribe", whem_id, "IotWhem"),
     SubCall("set_whem_bandwidth", whem_id, "1"),
     SubCall("set_whem_bandwidth", whem_id, "0"),
     SubCall("set_whem_bandwidth", whem_id, "1") >>

\* The calls of a hub's try block: bandwidth 1, 0, 1 and the subscription.
HubCalls(whem_id) ==
  << SubCall("set_whem_bandwidth", whem_id, "1"),
     SubCall("set_whem_bandwidth", whem_id, "0"),
     SubCall("set_whem_bandwidth", whem_id, "1"),
     SubCall("subscribe", whem_id, "IotWhem") >>

\* The calls of a panel's try block.
PanelCalls(panel_id) ==
  << SubCall("set_panel_bandwidth", panel_id, "True"),
     SubCall("subscribe", panel_id, "ResidentialBreakerPanel") >>

\* The call of a breaker's try block.
BreakerCalls(breaker_id) == << SubCall("subscribe", breaker_id, "ResidentialBreaker") >>

\* A try block whose k-th call raises LevitonConnectionError (none does:
\* k = 0): the calls up to the k-th are awaited, the rest is skipped.
TryBlock(calls, k) ==
  IF k = 0 \/ k > Len(calls) THEN calls
  ELSE [ n \in 1..k |->
           IF n = k THEN [calls[n] EXCEPT !.outcome = "LevitonConnectionError"]
           ELSE calls[n] ]

\* for whem_id in data.whems: try: ... except LevitonConnectionError
RECURSIVE HubSubscriptions(_, _)
HubSubscriptions(ids, fails) ==
  IF ids = <<>> THEN <<>>
  ELSE TryBlock(HubCalls(Head(ids)), fails[Head(ids)])
       \o HubSubscriptions(Tail(ids), fails)

\* for panel_id in data.panels: try: ... except LevitonConnectionError
RECURSIVE PanelSubscriptions(_, _)
PanelSubscriptions(ids, fails) ==
  IF ids = <<>> THEN <<>>
  ELSE TryBlock(PanelCalls(Head(ids)), fails[Head(ids)])
       \o PanelSubscriptions(Tail(ids), fails)

\* for breaker_id, breaker in data.breakers.items():
\*   if breaker.iot_whem_id != whem_id: continue
RECURSIVE BreakerSubscriptions(_, _, _, _)
BreakerSubscriptions(ids, bs, whem_id, fails) ==
  IF ids = <<>> THEN <<>>
  ELSE (IF bs[Head(ids)]["iot_whem_id"] # whem_id THEN <<>>
        ELSE TryBlock(BreakerCalls(Head(ids)), fails[Head(ids)]))
       \o BreakerSubscriptions(Tail(ids), bs, whem_id, fails)

\* for whem_id, whem in data.whems.items():
\*   if not needs_individual_breaker_subs(whem): continue
RECURSIVE IndividualSubscriptions(_, _, _, _)
IndividualSubscriptions(ids, ws_, bs, fails) ==
  IF ids = <<>> THEN <<>>
  ELSE (IF ~needs_individual_breaker_subs(ws_[Head(ids)].version) THEN <<>>
        ELSE BreakerSubscriptions(KeySeq(DOMAIN bs), bs, Head(ids), fails))
       \o IndividualSubscriptions(Tail(ids), ws_, bs, fails)

\* The calls connect() awaits between the registration of its callbacks
\* and _start_keepalive, with how each came back.
SubscriptionCalls(fails) ==
  HubSubscriptions(KeySeq(DOMAIN whems), fails)
  \o PanelSubscriptions(KeySeq(DOMAIN panels), fails)
  \o IndividualSubscriptions(KeySeq(DOMAIN whems), whems, breakers, fails)

\* connect() on an established connection, from its first bandwidth call
\* to _start_keepalive; fails names, for each device, the call of its try
\* block that raises LevitonConnectionError.
ConnectSubscribes(fails) ==
  /\ op = "idle"
  /\ ws # None
  /\ ~keepalive_unsub
  /\ StartKeepalive
  /\ WsObserve("connect_subscribed", fails, SubscriptionCalls(fails))
  /\ WsFrame
  /\ UNCHANGED <<now, ws, conns, tasks, reconnecting, last_ws_notification,
                 ws_remove_notification, ws_remove_disconnect, reauth>>

\* ------------------------------------------------ sensor.py: the readings

\* _breaker_energy: the lifetime energy the breaker's sensor presents.
BreakerEnergy(breaker) ==
  IF breaker["energy_consumption"] = None THEN None
  ELSE IF breaker["poles"] = 2
       THEN Round3(breaker["energy_consumption"]
                   + (IF breaker["energy_consumption_2"] = None THEN 0
                      ELSE breaker["energy_consumption_2"]))
       ELSE breaker["energy_consumption"]

\* The value_fn of the Ct lifetime_energy sensor.
CtEnergy(ct) ==
  Round3(OrZero(ct["energy_consumption"]) + OrZero(ct["energy_consumption_2"]))

\* ------------------------------------- websocket.py: notification handling

NoId == "<none>"

BreakerUpdateKeys == BREAKER_ENERGY_FIELDS \cup BreakerOtherKeys
CtUpdateKeys == CT_ENERGY_FIELDS \cup CtOtherKeys

\* _apply_breaker_ws_update returns True: the payload names a known breaker.
BreakerUpdateApplies(bs, breaker_data) ==
  "id" \in DOMAIN breaker_data /\ breaker_data["id"] \in DOMAIN bs

\* The current state is synthesized whether or not the breaker can be
\* turned on remotely.
SynthesizesForAll(d, breaker) ==
  /\ "remoteTrip" \in DOMAIN d
  /\ d["remoteTrip"] = TRUE

\* if breaker_data.get("remoteTrip") and not breaker.can_remote_on
Synthesizes(d, breaker) ==
  /\ "remoteTrip" \in DOMAIN d
  /\ d["remoteTrip"] = TRUE
  /\ ~breaker["can_remote_on"]

\* The payload _apply_breaker_ws_update hands to breaker.update():
\* breaker_data.setdefault("currentState", STATE_SOFTWARE_TRIP)
BreakerMergeData(breaker_data, breaker) ==
  LET d == normalize_breaker_energy(breaker_data, breaker)
  IN IF Synthesizes(d, breaker) /\ "currentState" \notin DOMAIN d
     THEN d @@ ("currentState" :> STATE_SOFTWARE_TRIP)
     ELSE d

\* _apply_breaker_ws_update, as the breakers mapping it leaves.
ApplyBreakerWsUpdate(bs, breaker_data) ==
  IF ~BreakerUpdateApplies(bs, breaker_data) THEN bs
  ELSE LET id == breaker_data["id"]
       IN [bs EXCEPT ![id] =
             Update(bs[id], BreakerMergeData(breaker_data, bs[id]),
                    BreakerUpdateKeys)]

\* The loop over a nested ResidentialBreaker array, in arrival order.
RECURSIVE ApplyBreakerArray(_, _)
ApplyBreakerArray(bs, arr) ==
  IF arr = <<>> THEN bs
  ELSE ApplyBreakerArray(ApplyBreakerWsUpdate(bs, Head(arr)), Tail(arr))

\* A nested or direct Ct payload is merged when it names a known Ct.
CtUpdateApplies(cs, ct_data) ==
  "id" \in DOMAIN ct_data /\ ct_data["id"] \in DOMAIN cs

ApplyCtWsUpdate(cs, ct_data) ==
  IF ~CtUpdateApplies(cs, ct_data) THEN cs
  ELSE LET id == ct_data["id"]
       IN [cs EXCEPT ![id] =
             Update(cs[id], normalize_ct_energy(ct_data, cs[id]), CtUpdateKeys)]

RECURSIVE ApplyCtArray(_, _)
ApplyCtArray(cs, arr) ==
  IF arr = <<>> THEN cs
  ELSE ApplyCtArray(ApplyCtWsUpdate(cs, Head(arr)), Tail(arr))

Children(data, key) == IF key \in DOMAIN data THEN data[key] ELSE <<>>

Restrict(data, keys) == [ k \in DOMAIN data \cap keys |-> data[k] ]

\* breaker_ids, ct_ids: the entries of a child array (or the one direct
\* payload) that named a device of the store and were merged into it.
UpdatedIds(arr, devices) ==
  SelectSeq(arr, LAMBDA d : "id" \in DOMAIN d /\ d["id"] \in DOMAIN devices)

\* The whole payload is the parent's own.
WholePayload(data, child_arrays) == data

\* {k: v for k, v in data_payload.items() if k not in (...)}
OwnData(data, child_arrays) == Restrict(data, DOMAIN data \ child_arrays)

\* coordinator_data.whems[str(model_id)].update(whem_data), and the same
\* on a panel: the record updated and the dict it is handed.
ParentUpdate(id, data) == [ id |-> id, data |-> data ]

\* No notification is dropped before it is dispatched.
NeverDropped(data_payload, model_id) == FALSE

\* if not data_payload or model_id is None: return
Dropped(data_payload, model_id) == data_payload = NoDict \/ model_id = NoId

\* The four stores a notification leaves, and whether anything was merged.
WsMerge(n) ==
  LET name == n["modelName"]
      id == n["modelId"]
      data == n["data"]
      same == [ w |-> whems, p |-> panels, b |-> breakers, c |-> cts,
                merged |-> FALSE, records |-> 0, own |-> <<>> ]
  IN IF Dropped(data, id) THEN same
     ELSE IF name = "IotWhem" THEN
       LET barr == Children(data, "ResidentialBreaker")
           carr == Children(data, "IotCt")
           whem_data == OwnData(data, {"ResidentialBreaker", "IotCt"})
           hub_updated == whem_data # NoDict /\ id \in DOMAIN whems
       IN [ w |-> IF hub_updated
                  THEN [whems EXCEPT ![id] = Update(whems[id], whem_data, WhemOwnKeys)]
                  ELSE whems,
            p |-> panels,
            b |-> ApplyBreakerArray(breakers, barr),
            c |-> ApplyCtArray(cts, carr),
            merged |-> \/ hub_updated
                       \/ \E i \in 1..Len(barr) : BreakerUpdateApplies(breakers, barr[i])
                       \/ \E i \in 1..Len(carr) : CtUpdateApplies(cts, carr[i]),
            records |-> Len(UpdatedIds(barr, breakers)) + Len(UpdatedIds(carr, cts))
                        + (IF hub_updated THEN 1 ELSE 0),
            own |-> IF hub_updated THEN << ParentUpdate(id, whem_data) >> ELSE <<>> ]
     ELSE IF name = "ResidentialBreakerPanel" THEN
       LET barr == Children(data, "ResidentialBreaker")
           panel_data == OwnData(data, {"ResidentialBreaker"})
           hub_updated == panel_data # NoDict /\ id \in DOMAIN panels
       IN [ w |-> whems,
            p |-> IF hub_updated
                  THEN [panels EXCEPT ![id] = Update(panels[id], panel_data, PanelOwnKeys)]
                  ELSE panels,
            b |-> ApplyBreakerArray(breakers, barr),
            c |-> cts,
            merged |-> \/ hub_updated
                       \/ \E i \in 1..Len(barr) : BreakerUpdateApplies(breakers, barr[i]),
            records |-> Len(UpdatedIds(barr, breakers))
                        + (IF hub_updated THEN 1 ELSE 0),
            own |-> IF hub_updated THEN << ParentUpdate(id, panel_data) >> ELSE <<>> ]
     ELSE IF name = "ResidentialBreaker" THEN
       LET payload == ("id" :> id) @@ data
       IN [ same EXCEPT !.b = ApplyBreakerWsUpdate(breakers, payload),
                        !.merged = BreakerUpdateApplies(breakers, payload),
                        !.records = Len(UpdatedIds(<<payload>>, breakers)) ]
     ELSE IF name = "IotCt" THEN
       LET payload == ("id" :> id) @@ data
       IN [ same EXCEPT !.c = ApplyCtWsUpdate(cts, payload),
                        !.merged = CtUpdateApplies(cts, payload),
                        !.records = Len(UpdatedIds(<<payload>>, cts)) ]
     ELSE same

\* The staleness clock moves only when something was merged.
MergedAt(m) == IF m.merged THEN now ELSE last_ws_notification

\* self._last_ws_notification = time.monotonic(), the handler's first
\* statement: the clock moves whatever becomes of the notification.
NotifiedAt(m) == now

\* async_set_updated_data is called for each record that was merged.
FiredPerRecord(m) == m.records

\* if breaker_ids or ct_ids or hub_updated:
\*   self.coordinator.async_set_updated_data(coordinator_data)
UpdatesFired(m) == IF m.merged THEN 1 ELSE 0

\* _handle_ws_notification: the staleness clock is reset first, whatever the
\* message; a merge fires async_set_updated_data once.
HandleWsNotificationOn(n) ==
  LET m == WsMerge(n)
  IN /\ op = "idle"
     /\ last_ws_notification' = NotifiedAt(m)
     /\ whems' = m.w
     /\ panels' = m.p
     /\ breakers' = m.b
     /\ cts' = m.c
     /\ fired' = UpdatesFired(m)
     /\ handed' = m.own
     /\ op' = "ws_notification"
     /\ arg' = n
     /\ prev' = Snapshot
     /\ ret' = None
     /\ writes' = <<>>
     /\ UNCHANGED <<daily_baselines, trackerVars, clockVars, histVars>>
     /\ UNCHANGED <<ws, reconnecting, ws_remove_notification,
                    ws_remove_disconnect, keepalive_unsub, watchdog_unsub,
                    bandwidth_unsub, conns, tasks, reauth>>

\* --------------------------------------------- the stores and the messages

UnknownId == "zz"

\* A breaker as discovery leaves it, with its energy readings e.
NewBreaker(poles, parent, remote, e) ==
  [ poles |-> poles, iot_whem_id |-> parent, can_remote_on |-> remote,
    energy_consumption |-> e[1], energy_consumption_2 |-> e[2],
    energy_import |-> e[3],
    power |-> 0, remote_trip |-> FALSE, current_state |-> "ManualON" ]

NewCt(parent, e) ==
  [ iot_whem_id |-> parent,
    energy_consumption |-> e[1], energy_consumption_2 |-> e[2],
    energy_import |-> e[3], energy_import_2 |-> e[4], active_power |-> 0 ]

\* A hub as discovery leaves it, with firmware 2.0.0.
NewWhem == [ rms_voltage_a |-> 0, version |-> << "2", "0", "0" >> ]
NewPanel == [ rms_voltage |-> 0 ]

\* The readings a fetched device starts with: unknown, or a lifetime total.
FirstReadings == { None, MaxE }

\* The stores discovery can leave: a hub with a two-pole breaker that cannot
\* be turned on remotely, a hub with a Ct, a panel with a one-pole breaker
\* that can.
DiscoveredStores ==
  { [ w |-> ("w1" :> NewWhem), p |-> NoDict,
      b |-> ("b1" :> NewBreaker(2, "w1", FALSE, e)), c |-> NoDict ] :
      e \in [1..3 -> FirstReadings] }
  \cup
  { [ w |-> ("w1" :> NewWhem), p |-> NoDict, b |-> NoDict,
      c |-> ("1" :> NewCt("w1", e)) ] : e \in [1..4 -> FirstReadings] }
  \cup
  { [ w |-> NoDict, p |-> ("p1" :> NewPanel),
      b |-> ("b1" :> NewBreaker(1, "", TRUE, <<e[1], None, e[2]>>)), c |-> NoDict ] :
      e \in [1..2 -> FirstReadings] }

\* The energy part of a live payload: no energy key, or one with its value.
EnergyParts(fields) ==
  { NoDict } \cup { k :> v : k \in KeysOf(fields), v \in 0..MaxE }

BreakerExtras == { NoDict, "power" :> 1 }
CtExtras == { NoDict, "activePower" :> 1 }

BreakerPayloads ==
  { e @@ x : e \in EnergyParts(BREAKER_ENERGY_FIELDS), x \in BreakerExtras }
CtPayloads ==
  { e @@ x : e \in EnergyParts(CT_ENERGY_FIELDS), x \in CtExtras }

Notification(name, id, data) ==
  [ modelName |-> name, modelId |-> id, data |-> data ]

\* The notifications the transport delivers: direct ones, parent ones with
\* their own fields or one nested child entry, and the ones that are ignored.
WsNotifications ==
  { Notification("ResidentialBreaker", "b1", d) : d \in BreakerPayloads }
  \cup { Notification("IotCt", "1", d) : d \in CtPayloads }
  \cup { Notification("IotWhem", "w1",
                      "ResidentialBreaker" :> << ("id" :> "b1") @@ e >>) :
           e \in EnergyParts(BREAKER_ENERGY_FIELDS) }
  \cup { Notification("IotWhem", "w1", "IotCt" :> << ("id" :> "1") @@ e >>) :
           e \in EnergyParts(CT_ENERGY_FIELDS) }
  \cup { Notification("ResidentialBreakerPanel", "p1",
                      "ResidentialBreaker" :> << ("id" :> "b1") @@ e >>) :
           e \in EnergyParts(BREAKER_ENERGY_FIELDS) }
  \cup { Notification("IotWhem", "w1", "rmsVoltageA" :> 1),
         Notification("IotWhem", "w1",
                      ("rmsVoltageA" :> 1)
                      @@ ("ResidentialBreaker" :> << ("id" :> "b1") @@ ("power" :> 1) >>)),
         Notification("ResidentialBreakerPanel", "p1", "rmsVoltage" :> 1),
         Notification("IotWhem", "w1",
                      "ResidentialBreaker" :> << ("id" :> UnknownId) @@ ("power" :> 1) >>),
         Notification("IotWhem", "w1",
                      ("rmsVoltageA" :> 1)
                      @@ ("ResidentialBreaker" :> << ("id" :> UnknownId) @@ ("power" :> 1),
                                                     ("id" :> "b1") @@ ("power" :> 1) >>)
                      @@ ("IotCt" :> << ("id" :> UnknownId) @@ ("activePower" :> 1),
                                        ("id" :> "1") @@ ("activePower" :> 1) >>)),
         Notification("ResidentialBreakerPanel", "p1",
                      ("rmsVoltage" :> 1)
                      @@ ("ResidentialBreaker" :> << ("id" :> UnknownId) @@ ("power" :> 1),
                                                     ("id" :> "b1") @@ ("power" :> 1) >>)),
         Notification("ResidentialBreaker", UnknownId, "power" :> 1),
         Notification("IotCt", UnknownId, "activePower" :> 1),
         Notification("Thermostat", "w1", "power" :> 1),
         Notification("ResidentialBreaker", "b1", NoDict),
         Notification("ResidentialBreaker", NoId, "power" :> 1) }

\* WebSocketManager.__init__
WsManagerInit ==
  /\ ws = None
  /\ last_ws_notification = 0
  /\ reconnecting = FALSE
  /\ ws_remove_notification = None
  /\ ws_remove_disconnect = None
  /\ keepalive_unsub = FALSE
  /\ watchdog_unsub = FALSE
  /\ bandwidth_unsub = FALSE
  /\ conns = <<>>
  /\ tasks = <<>>
  /\ reauth = 0

\* EnergyTracker.__init__, with nothing persisted yet.
TrackerInit ==
  /\ lifetime_store = NoDict
  /\ baseline_store = NoDict
  /\ energy_high_water = NoDict

\* Nothing is running: the event loop is idle.
ObsInit ==
  /\ op = "idle"
  /\ arg = NoDict
  /\ prev = NoDict
  /\ ret = None
  /\ writes = <<>>
  /\ fired = 0
  /\ handed = <<>>
  /\ passed = NoDict
  /\ tripped = {}
  /\ reconnect_from = {}
  /\ shut_down = FALSE

\* The operation that ran has returned and what it did has been observed:
\* the event loop is idle again.
Settle ==
  /\ op # "idle"
  /\ op' = "idle"
  /\ arg' = NoDict
  /\ prev' = NoDict
  /\ ret' = None
  /\ writes' = <<>>
  /\ fired' = 0
  /\ handed' = <<>>
  /\ UNCHANGED <<storeVars, trackerVars, clockVars, wsVars, histVars>>

\* ----------------------------------------- the live-merge specification

InitLive ==
  /\ \E s \in DiscoveredStores :
       /\ whems = s.w
       /\ panels = s.p
       /\ breakers = s.b
       /\ cts = s.c
  /\ daily_baselines = NoDict
  /\ TrackerInit
  /\ today = 0
  /\ now = 0
  /\ WsManagerInit
  /\ ObsInit

HandleWsNotification == \E n \in WsNotifications : HandleWsNotificationOn(n)

NextLive == HandleWsNotification \/ Settle

SpecLive == InitLive /\ [][NextLive]_vars

\* ------------------------------------------------ the trip specification

\* The notifications about a breaker's state: a remote trip with and
\* without a current state, direct and nested, the end of a trip, a
\* current state alone and a reading.
TripNotifications ==
  { Notification("ResidentialBreaker", "b1", "remoteTrip" :> TRUE),
    Notification("ResidentialBreaker", "b1", "remoteTrip" :> FALSE),
    Notification("ResidentialBreaker", "b1",
                 ("remoteTrip" :> TRUE) @@ ("currentState" :> "RemoteOFF")),
    Notification("ResidentialBreaker", "b1", "currentState" :> "ManualOFF"),
    Notification("ResidentialBreaker", "b1", "power" :> 1),
    Notification("IotWhem", "w1",
                 "ResidentialBreaker" :> << ("id" :> "b1") @@ ("remoteTrip" :> TRUE) >>),
    Notification("ResidentialBreakerPanel", "p1",
                 "ResidentialBreaker" :> << ("id" :> "b1") @@ ("remoteTrip" :> TRUE) >>) }

HandleTripNotification == \E n \in TripNotifications : HandleWsNotificationOn(n)

NextTrip == HandleTripNotification \/ Settle

SpecTrip == InitLive /\ [][NextTrip]_vars

\* ------------------------------------------------ properties: live values

\* y is x rounded to the nearest multiple of step.
Nearest(y, x, step) ==
  /\ y % step = 0
  /\ 2 * (y - x) <= step
  /\ 2 * (x - y) <= step

\* The breaker payloads of the notification just handled (direct or nested).
HandledBreakerPayloads ==
  IF op # "ws_notification" \/ arg["data"] = NoDict \/ arg["modelId"] = NoId THEN {}
  ELSE IF arg["modelName"] = "ResidentialBreaker"
       THEN { ("id" :> arg["modelId"]) @@ arg["data"] }
  ELSE IF arg["modelName"] \in {"IotWhem", "ResidentialBreakerPanel"}
       THEN LET a == Children(arg["data"], "ResidentialBreaker")
            IN { a[i] : i \in 1..Len(a) }
  ELSE {}

\* The Ct payloads of the notification just handled (direct or nested).
HandledCtPayloads ==
  IF op # "ws_notification" \/ arg["data"] = NoDict \/ arg["modelId"] = NoId THEN {}
  ELSE IF arg["modelName"] = "IotCt"
       THEN { ("id" :> arg["modelId"]) @@ arg["data"] }
  ELSE IF arg["modelName"] = "IotWhem"
       THEN LET a == Children(arg["data"], "IotCt")
            IN { a[i] : i \in 1..Len(a) }
  ELSE {}

\* The live updates just merged: the device before and after, the payload
\* and the device's energy fields.
LiveUpdates ==
  { [ before |-> prev.b[p["id"]], after |-> breakers[p["id"]], data |-> p,
      fields |-> BREAKER_ENERGY_FIELDS, others |-> BreakerOtherKeys ] :
      p \in { q \in HandledBreakerPayloads : q["id"] \in DOMAIN breakers } }
  \cup
  { [ before |-> prev.c[p["id"]], after |-> cts[p["id"]], data |-> p,
      fields |-> CT_ENERGY_FIELDS, others |-> CtOtherKeys ] :
      p \in { q \in HandledCtPayloads : q["id"] \in DOMAIN cts } }

OthersMerged(u) ==
  \A f \in u.others : f[1] \in DOMAIN u.data => u.after[f[2]] = u.data[f[1]]

\* C1 as stated: a live value v below half the stored lifetime L leaves the
\* stored value unchanged; v at or above half of L, or L absent, replaces
\* the stored value by v exactly; the non-energy fields are merged in both
\* cases.
C1_LiveValue_AsStated ==
  \A u \in LiveUpdates :
    /\ \A f \in u.fields :
         f[1] \in DOMAIN u.data =>
           LET L == u.before[f[2]]
               v == u.data[f[1]]
           IN /\ (L # None /\ 2 * v < L) => u.after[f[2]] = L
              /\ (L = None \/ 2 * v >= L) => u.after[f[2]] = v
    /\ OthersMerged(u)

\* C1, amended: a live value v at or below half the stored lifetime L
\* (L known and not zero) leaves the stored value unchanged; v above half of
\* L, or L absent or zero, replaces the stored value by v rounded to three
\* decimals; the non-energy fields are merged in both cases, and an energy
\* field the payload does not carry keeps its value.
C1_LiveValue ==
  \A u \in LiveUpdates :
    /\ \A f \in u.fields :
         LET L == u.before[f[2]]
         IN IF f[1] \in DOMAIN u.data
            THEN LET v == u.data[f[1]]
                 IN /\ (L # None /\ L # 0 /\ 2 * v <= L) => u.after[f[2]] = L
                    /\ (L = None \/ L = 0 \/ 2 * v > L) =>
                         Nearest(u.after[f[2]], v, Milli)
            ELSE u.after[f[2]] = L
    /\ OthersMerged(u)

\* A live value of exactly half the stored lifetime arrived with another
\* field of the payload, was dropped, and the other field was merged.
C1_Witness ==
  \E u \in LiveUpdates :
    /\ "energyConsumption" \in DOMAIN u.data
    /\ u.before["energy_consumption"] = MaxE
    /\ 2 * u.data["energyConsumption"] = u.before["energy_consumption"]
    /\ u.after["energy_consumption"] = MaxE
    /\ \E f \in u.others : f[1] \in DOMAIN u.data

\* C4: the lifetime energy a Breaker's or a Channel's sensor presents never
\* decreases from one observation to the next.
C4_ReadingNeverDecreases ==
  op # "idle" =>
    /\ \A id \in DOMAIN breakers :
         (BreakerEnergy(prev.b[id]) # None /\ BreakerEnergy(breakers[id]) # None)
           => BreakerEnergy(breakers[id]) >= BreakerEnergy(prev.b[id])
    /\ \A id \in DOMAIN cts : CtEnergy(cts[id]) >= CtEnergy(prev.c[id])

\* ------------------------------------------- the correction specification

RestReadings == 0..MaxE

RestFetch ==
  \E value \in RestReadings :
    \/ \E f \in BREAKER_CACHE_FIELDS : RestFetchOn("breaker", "b1", f[1], value)
    \/ \E f \in CT_CACHE_FIELDS : RestFetchOn("ct", "1", f[1], value)

\* The stores a correction runs on: a two-pole breaker, a Ct that reports
\* imports, and a one-pole breaker next to a Ct.
CorrectedStores ==
  { [ w |-> ("w1" :> NewWhem), p |-> NoDict,
      b |-> ("b1" :> NewBreaker(2, "w1", FALSE, <<MaxE, MaxE, None>>)),
      c |-> NoDict ],
    [ w |-> ("w1" :> NewWhem), p |-> NoDict, b |-> NoDict,
      c |-> ("1" :> NewCt("w1", <<None, None, MaxE, MaxE>>)) ],
    [ w |-> ("w1" :> NewWhem), p |-> NoDict,
      b |-> ("b1" :> NewBreaker(1, "w1", TRUE, <<MaxE, None, None>>)),
      c |-> ("1" :> NewCt("w1", <<MaxE, None, None, None>>)) ] }

InitCorrect ==
  /\ \E s \in CorrectedStores :
       /\ whems = s.w
       /\ panels = s.p
       /\ breakers = s.b
       /\ cts = s.c
  /\ daily_baselines = NoDict
  /\ TrackerInit
  /\ today = 0
  /\ now = 0
  /\ WsManagerInit
  /\ ObsInit

NextCorrect == RestFetch \/ CorrectEnergyValues \/ SaveLifetimeEnergy \/ Settle

SpecCorrect == InitCorrect /\ [][NextCorrect]_vars

\* ------------------------------------------- properties: REST corrections

\* What the correction just run did to each energy field of each device:
\* the cache entry and the fresh reading it found, the device value and the
\* cache entry it left.
Corrections ==
  IF op # "correct_energy_values" THEN {}
  ELSE { [ cached |-> Get(prev.stored, CacheKey("", id, f[2])),
           rest |-> prev.b[id][f[1]],
           value |-> breakers[id][f[1]],
           entry |-> Get(lifetime_store, CacheKey("", id, f[2])) ] :
           id \in DOMAIN prev.b, f \in BREAKER_CACHE_FIELDS }
       \cup
       { [ cached |-> Get(prev.stored, CacheKey("ct_", id, f[2])),
           rest |-> prev.c[id][f[1]],
           value |-> cts[id][f[1]],
           entry |-> Get(lifetime_store, CacheKey("ct_", id, f[2])) ] :
           id \in DOMAIN prev.c, f \in CT_CACHE_FIELDS }

BelowHalf(c) == c.cached # None /\ 2 * c.rest < c.cached

\* C2 as stated: a fresh reading r below half the cached lifetime L makes the
\* device value and the cache entry L + r; otherwise the device value stays r
\* and the cache entry becomes r only when there was none or r exceeds it;
\* the cache is persisted exactly when an entry changed.
C2_RestCorrection_AsStated ==
  /\ \A c \in Corrections :
       c.rest # None =>
         IF BelowHalf(c)
         THEN c.value = c.cached + c.rest /\ c.entry = c.cached + c.rest
         ELSE /\ c.value = c.rest
              /\ c.entry = IF c.cached = None \/ c.rest > c.cached
                           THEN c.rest ELSE c.cached
  /\ op = "correct_energy_values" =>
       (writes # <<>> <=> lifetime_store # prev.stored)

\* C2, amended: a fresh reading r below half the cached lifetime L makes the
\* device value and the cache entry L + r rounded to three decimals;
\* otherwise the device value stays r and the cache entry becomes r only when
\* there was none or r exceeds it; an unknown reading changes nothing.  The
\* cache is persisted, as it then stands, exactly when an entry was written:
\* some reading was below half its entry, had no entry, or exceeded it.
C2_RestCorrection ==
  /\ \A c \in Corrections :
       IF c.rest = None THEN c.value = None /\ c.entry = c.cached
       ELSE IF BelowHalf(c)
       THEN c.value = c.entry /\ Nearest(c.value, c.cached + c.rest, Milli)
       ELSE /\ c.value = c.rest
            /\ c.entry = IF c.cached = None \/ c.rest > c.cached
                         THEN c.rest ELSE c.cached
  /\ op = "correct_energy_values" =>
       /\ writes # <<>> <=>
            \E c \in Corrections :
              c.rest # None /\ (c.cached = None \/ BelowHalf(c) \/ c.rest > c.cached)
       /\ writes # <<>> => writes = << Saved("lifetime_energy", lifetime_store) >>
       /\ writes = <<>> => lifetime_store = prev.stored

\* A correction added a reading below half its entry to it, left a reading
\* of another field that was no higher than its entry alone, and saved.
C2_Witness ==
  /\ \E c \in Corrections :
       c.rest # None /\ BelowHalf(c) /\ c.rest > 0 /\ c.value > c.cached
  /\ \E c \in Corrections :
       c.rest # None /\ c.cached # None /\ ~BelowHalf(c) /\ c.rest <= c.cached
         /\ c.entry = c.cached
  /\ writes # <<>>

ClampKeys == { "b1", "ct_1" }
ClampValues == 0..MaxClampValue

ClampIncreasing ==
  \E key \in ClampKeys, value \in ClampValues : ClampIncreasingOn(key, value)

InitClamp == InitCorrect

NextClamp == ClampIncreasing \/ Settle

SpecClamp == InitClamp /\ [][NextClamp]_vars

\* ------------------------------------------- properties: high-water mark

SetMax(S) == CHOOSE x \in S : \A y \in S : x >= y

\* C5: each value clamp_increasing returns for a key is the maximum of all
\* values it has been passed for that key so far, so it is never below the
\* value it returned before for that key; a call never changes the
\* high-water mark of another key.
C5_MonotonicClamp ==
  op = "clamp_increasing" =>
    /\ ret = SetMax(passed[arg.key])
    /\ energy_high_water[arg.key] = ret
    /\ arg.key \in DOMAIN prev.high_water => ret >= prev.high_water[arg.key]
    /\ \A k \in ClampKeys \ {arg.key} :
         Get(energy_high_water, k) = Get(prev.high_water, k)

\* A call passed a value below the key's mark and was clamped to it, while
\* another key had a different mark.
C5_Witness ==
  /\ op = "clamp_increasing"
  /\ arg.value < ret
  /\ \E k \in DOMAIN energy_high_water \ {arg.key} :
       energy_high_water[k] # ret

\* -------------------------------------------- the daily-energy specifications

\* The baselines a snapshot can hold for a breaker: multiples of 0.001.
CalcBaselines ==
  { NoDict } \cup { "b1" :> Milli * i : i \in 0..MaxBaselineMilli }

CalcLifetimes == { None } \cup 0..MaxLifetime

InitCalc ==
  /\ \E s \in CorrectedStores :
       /\ whems = s.w
       /\ panels = s.p
       /\ breakers = s.b
       /\ cts = s.c
  /\ daily_baselines \in CalcBaselines
  /\ TrackerInit
  /\ today = 0
  /\ now = 0
  /\ WsManagerInit
  /\ ObsInit

CalcDaily ==
  \E breaker_id \in { "b1", UnknownId }, lifetime \in CalcLifetimes :
    CalcDailyEnergyOn(breaker_id, lifetime)

NextCalc == CalcDaily \/ Settle

SpecCalc == InitCalc /\ [][NextCalc]_vars

\* The stores a day is followed on: a one-pole breaker on a panel, a
\* two-pole breaker, a Ct, and a breaker and a Ct without readings.
DailyStores ==
  { [ w |-> NoDict, p |-> ("p1" :> NewPanel),
      b |-> ("b1" :> NewBreaker(1, "", TRUE, <<MaxE, None, None>>)),
      c |-> NoDict ],
    [ w |-> ("w1" :> NewWhem), p |-> NoDict,
      b |-> ("b1" :> NewBreaker(2, "w1", FALSE, <<MaxE, MaxE, None>>)),
      c |-> NoDict ],
    [ w |-> ("w1" :> NewWhem), p |-> NoDict, b |-> NoDict,
      c |-> ("1" :> NewCt("w1", <<MaxE, MaxE, None, None>>)) ],
    [ w |-> ("w1" :> NewWhem), p |-> NoDict,
      b |-> ("b1" :> NewBreaker(1, "w1", TRUE, <<None, None, None>>)),
      c |-> ("1" :> NewCt("w1", <<None, None, None, None>>)) ] }

\* A baseline file written before the date stamp was introduced.
UndatedStored == [ baselines |-> ("b1" :> Milli) ]

\* The readings a fetch brings on such a day: nothing yet, less than 0.001,
\* or a lifetime total.
DailyReadings == { 0, Milli - 1, MaxE }

DailyFetch ==
  \E value \in DailyReadings :
    \/ \E f \in BREAKER_CACHE_FIELDS : RestFetchOn("breaker", "b1", f[1], value)
    \/ \E f \in CT_CACHE_FIELDS : RestFetchOn("ct", "1", f[1], value)

InitDaily ==
  /\ \E s \in DailyStores :
       /\ whems = s.w
       /\ panels = s.p
       /\ breakers = s.b
       /\ cts = s.c
  /\ daily_baselines = NoDict
  /\ lifetime_store = NoDict
  /\ baseline_store \in { NoDict, UndatedStored }
  /\ energy_high_water = NoDict
  /\ today = 0
  /\ now = 0
  /\ WsManagerInit
  /\ ObsInit

NextDaily ==
  \/ LoadDailyBaselines
  \/ HandleMidnight
  \/ NextDay
  \/ Restart
  \/ DailyFetch
  \/ Settle

SpecDaily == InitDaily /\ [][NextDaily]_vars

\* ----------------------------------- the connection-manager specification

\* A hub with one breaker, as discovery leaves them.
InitWs ==
  /\ whems = ("w1" :> NewWhem)
  /\ panels = NoDict
  /\ breakers = ("b1" :> NewBreaker(1, "w1", FALSE, <<MaxE, None, None>>))
  /\ cts = NoDict
  /\ daily_baselines = NoDict
  /\ TrackerInit
  /\ today = 0
  /\ now = 0
  /\ WsManagerInit
  /\ ObsInit

\* A notification that is merged and one that is ignored.
PushedNotifications ==
  { Notification("IotWhem", "w1", "rmsVoltageA" :> 1),
    Notification("Thermostat", "w1", "power" :> 1) }

\* The transport delivers a notification on a connection that is open and
\* carries the manager's notification callback.
Pushed ==
  \E c \in DOMAIN conns, n \in PushedNotifications :
    /\ conns[c].state = "open"
    /\ conns[c].on_notification
    /\ HandleWsNotificationOn(n)

ConnectResults ==
  \E i \in DOMAIN tasks, outcome \in ConnectOutcomes : ConnectResult(i, outcome)

Subscribed == \E i \in DOMAIN tasks : SubscribeDone(i)

RefreshResumes == \E i \in DOMAIN tasks : RefreshResume(i)

WatchdogResumes == \E i \in DOMAIN tasks : WatchdogResume(i)

TransportDisconnects == \E c \in DOMAIN conns : TransportDisconnect(c)

ReconnectStarts == \E i \in DOMAIN tasks : ReconnectStart(i)

ReconnectWakes == \E i \in DOMAIN tasks : ReconnectWake(i)

ReconnectValidates ==
  \E i \in DOMAIN tasks, outcome \in ValidateOutcomes : ReconnectValidated(i, outcome)

SetupLoads == \E i \in DOMAIN tasks : SetupLoaded(i)

ReconnectCancels == \E i \in DOMAIN tasks : ReconnectCancelled(i)

NextWs ==
  \/ FirstConnect
  \/ ConnectResults
  \/ Subscribed
  \/ SetupLoads
  \/ RefreshTick
  \/ RefreshResumes
  \/ WatchdogTick
  \/ WatchdogResumes
  \/ TransportDisconnects
  \/ ReconnectStarts
  \/ ReconnectWakes
  \/ ReconnectValidates
  \/ ReconnectCancels
  \/ Pushed
  \/ Tick
  \/ Settle

SpecWs == InitWs /\ [][NextWs]_vars

\* ------------------------------------------- the polling specification

\* A hub with a breaker and a channel, a panel with a breaker, or both.
PollStores ==
  LET hub == "w1" :> NewWhem
      panel == "p1" :> NewPanel
      hubBreaker == "b1" :> NewBreaker(1, "w1", FALSE, <<MaxE, None, None>>)
      panelBreaker == "b2" :> NewBreaker(1, "", TRUE, <<MaxE, None, None>>)
      channel == "1" :> NewCt("w1", <<MaxE, None, None, None>>)
  IN { [ w |-> hub, p |-> NoDict, b |-> hubBreaker, c |-> channel ],
       [ w |-> NoDict, p |-> panel, b |-> panelBreaker, c |-> NoDict ],
       [ w |-> hub, p |-> panel, b |-> hubBreaker @@ panelBreaker, c |-> channel ] }

\* The instants a poll runs at, and the instants of the last notification.
PollInstants == { ClockStep, ClockStep + StalePollSeconds, ClockStep + StalePollSeconds + 1 }
NotifiedInstants == { 0, ClockStep }

\* The readings a fetch answers with: a period delta or a lifetime total.
PollReadings == { 1, MaxE }

\* The devices are discovered and the setup has cached their readings; the
\* connection is absent, or open with the callbacks registered and the
\* timers running.
InitPoll ==
  /\ \E s \in PollStores :
       /\ whems = s.w
       /\ panels = s.p
       /\ breakers = s.b
       /\ cts = s.c
  /\ daily_baselines = NoDict
  /\ lifetime_store = LifetimeEnergy
  /\ baseline_store = NoDict
  /\ energy_high_water = NoDict
  /\ today = 0
  /\ now \in PollInstants
  /\ \/ WsManagerInit
     \/ /\ ws = 1
        /\ conns = << [ state |-> "open", on_notification |-> TRUE, on_disconnect |-> TRUE ] >>
        /\ last_ws_notification \in NotifiedInstants
        /\ reconnecting = FALSE
        /\ ws_remove_notification = 1
        /\ ws_remove_disconnect = 1
        /\ keepalive_unsub = TRUE
        /\ watchdog_unsub = TRUE
        /\ bandwidth_unsub = (whems # NoDict)
        /\ tasks = <<>>
        /\ reauth = 0
  /\ ObsInit

AsyncUpdate ==
  \E k \in 0..5, failure \in FetchFailures, v \in PollReadings :
    AsyncUpdateData(k, failure, v)

NextPoll == AsyncUpdate \/ SaveLifetimeEnergy \/ Settle

SpecPoll == InitPoll /\ [][NextPoll]_vars

\* --------------------------------------------- coordinator.py: discovery

\* The cloud's inventory: residence r1 holds hub w1 (breaker b1, channel 1)
\* and panel p1 (breaker b2), residence r2 holds panel p2 (breaker b3);
\* account a1 owns both residences.
CloudResidences(account_id) == << "r1", "r2" >>
CloudWhems(residence_id) == IF residence_id = "r1" THEN << "w1" >> ELSE <<>>
CloudPanels(residence_id) == IF residence_id = "r1" THEN << "p1" >> ELSE << "p2" >>
CloudWhemBreakers(whem_id) == "b1" :> NewBreaker(1, whem_id, FALSE, <<MaxE, None, None>>)
CloudCts(whem_id) == "1" :> NewCt(whem_id, <<MaxE, None, None, None>>)
CloudPanelBreakers(panel_id) ==
  IF panel_id = "p1" THEN "b2" :> NewBreaker(1, "", TRUE, <<MaxE, None, None>>)
  ELSE "b3" :> NewBreaker(1, "", TRUE, <<MaxE, None, None>>)

\* Every call discovery can make.
DiscoveryCalls ==
  { Fetch("get_permissions", ""), Fetch("get_residences", "a1"),
    Fetch("get_whems", "r1"), Fetch("get_whems", "r2"),
    Fetch("get_panels", "r1"), Fetch("get_panels", "r2"),
    Fetch("get_whem_breakers", "w1"), Fetch("get_cts", "w1"),
    Fetch("get_panel_breakers", "p1"), Fetch("get_panel_breakers", "p2") }

\* perm.residence_id is None / perm.residential_account_id is None
NoResidence == ""

\* A permission names a residence directly or through an account.
Permission(residence_id, residential_account_id) ==
  [ residence_id |-> residence_id, residential_account_id |-> residential_account_id ]

\* LevitonData(residences=residences)
EmptyData == [ w |-> NoDict, p |-> NoDict, b |-> NoDict, c |-> NoDict ]

\* A discovery in progress: the store, the calls awaited so far and the
\* exception that is propagating ("" while none is).
Discovering(store, calls, raised) ==
  [ store |-> store, calls |-> calls, raised |-> raised ]

\* No handler of discovery catches a transport failure.
CatchesNothing(outcome) == FALSE

\* except LevitonConnectionError: LOGGER.warning(...)
Caught(outcome) == outcome = "LevitonConnectionError"

\* One guarded await: the call is made unless an exception is propagating;
\* an answer is merged as `merged`, a caught failure is logged and any
\* other failure propagates.
Await(acc, f, out, merged) ==
  IF acc.raised # "" THEN acc
  ELSE LET called == [acc EXCEPT !.calls = Append(@, f)]
       IN IF out[f] = "ok" THEN [called EXCEPT !.store = merged]
          ELSE IF Caught(out[f]) THEN called
          ELSE [called EXCEPT !.raised = out[f]]

\* for whem in whems: the hub is stored, then its breakers and its CTs are
\* fetched, each under its own handler.
RECURSIVE DiscoverWhems(_, _, _)
DiscoverWhems(acc, whem_ids, out) ==
  IF whem_ids = <<>> \/ acc.raised # "" THEN acc
  ELSE LET w == Head(whem_ids)
           a0 == [acc EXCEPT !.store.w = (w :> NewWhem) @@ @]
           a1 == Await(a0, Fetch("get_whem_breakers", w), out,
                       [a0.store EXCEPT !.b = CloudWhemBreakers(w) @@ @])
           a2 == Await(a1, Fetch("get_cts", w), out,
                       [a1.store EXCEPT !.c = CloudCts(w) @@ @])
       IN DiscoverWhems(a2, Tail(whem_ids), out)

\* for panel in panels: the panel is stored, then its breakers are fetched.
RECURSIVE DiscoverPanels(_, _, _)
DiscoverPanels(acc, panel_ids, out) ==
  IF panel_ids = <<>> \/ acc.raised # "" THEN acc
  ELSE LET p == Head(panel_ids)
           a0 == [acc EXCEPT !.store.p = (p :> NewPanel) @@ @]
           a1 == Await(a0, Fetch("get_panel_breakers", p), out,
                       [a0.store EXCEPT !.b = CloudPanelBreakers(p) @@ @])
       IN DiscoverPanels(a1, Tail(panel_ids), out)

\* LevitonCoordinator._discover_residence_devices
DiscoverResidenceDevices(acc, residence_id, out) ==
  LET hubs == Await(acc, Fetch("get_whems", residence_id), out, acc.store)
      a1 == IF hubs.raised = "" /\ out[Fetch("get_whems", residence_id)] = "ok"
            THEN DiscoverWhems(hubs, CloudWhems(residence_id), out)
            ELSE hubs
      boards == Await(a1, Fetch("get_panels", residence_id), out, a1.store)
  IN IF boards.raised = "" /\ out[Fetch("get_panels", residence_id)] = "ok"
     THEN DiscoverPanels(boards, CloudPanels(residence_id), out)
     ELSE boards

\* for residence_id in self._residence_ids
RECURSIVE DiscoverResidences(_, _, _)
DiscoverResidences(acc, residence_ids, out) ==
  IF residence_ids = <<>> \/ acc.raised # "" THEN acc
  ELSE DiscoverResidences(DiscoverResidenceDevices(acc, Head(residence_ids), out),
                          Tail(residence_ids), out)

\* for account_id in account_ids: get_residences under a handler of
\* LevitonConnectionError; the residences found so far ride in store.
RECURSIVE DiscoverAccounts(_, _, _)
DiscoverAccounts(acc, account_ids, out) ==
  IF account_ids = <<>> \/ acc.raised # "" THEN acc
  ELSE LET a == Head(account_ids)
           found == { CloudResidences(a)[n] : n \in DOMAIN CloudResidences(a) }
       IN DiscoverAccounts(Await(acc, Fetch("get_residences", a), out,
                                 acc.store \cup found),
                           Tail(account_ids), out)

\* How get_permissions ends discovery when it fails.
PermissionsResult(outcome) ==
  IF outcome = "LevitonAuthError" THEN "ConfigEntryAuthFailed" ELSE "UpdateFailed"

\* LevitonCoordinator._discover_devices with the permissions the account
\* holds and the outcome of every call: how it ends, the calls it awaited,
\* whether self.data was assigned and the store it assigned.
DiscoverDevicesResult(permissions, out) ==
  LET first == Fetch("get_permissions", "")
      direct == { perm.residence_id : perm \in { q \in permissions : q.residence_id # NoResidence } }
      account_ids ==
        { perm.residential_account_id :
            perm \in { q \in permissions : q.residential_account_id # NoResidence } }
      accounts == DiscoverAccounts(Discovering(direct, << first >>, ""),
                                   KeySeq(account_ids), out)
      devices == DiscoverResidences(Discovering(EmptyData, accounts.calls, ""),
                                    KeySeq(accounts.store), out)
  IN IF out[first] # "ok"
     THEN [ result |-> PermissionsResult(out[first]), calls |-> << first >>,
            assigned |-> FALSE, store |-> EmptyData ]
     ELSE IF accounts.raised # ""
     THEN [ result |-> accounts.raised, calls |-> accounts.calls,
            assigned |-> FALSE, store |-> EmptyData ]
     ELSE [ result |-> IF devices.raised = "" THEN "ok" ELSE devices.raised,
            calls |-> devices.calls, assigned |-> TRUE, store |-> devices.store ]

\* LevitonCoordinator._discover_devices
DiscoverDevices(permissions, out) ==
  LET r == DiscoverDevicesResult(permissions, out)
  IN /\ op = "idle"
     /\ whems' = IF r.assigned THEN r.store.w ELSE whems
     /\ panels' = IF r.assigned THEN r.store.p ELSE panels
     /\ breakers' = IF r.assigned THEN r.store.b ELSE breakers
     /\ cts' = IF r.assigned THEN r.store.c ELSE cts
     /\ op' = "discover_devices"
     /\ arg' = [ permissions |-> permissions, out |-> out ]
     /\ prev' = Snapshot
     /\ ret' = [ result |-> r.result, calls |-> r.calls ]
     /\ writes' = <<>>
     /\ fired' = 0
     /\ handed' = <<>>
     /\ UNCHANGED <<daily_baselines, trackerVars, clockVars, wsVars, histVars>>

\* ------------------------------------------- the discovery specification

\* The calls that fail in one discovery are at most this many.
MaxFailures == 2

\* The permissions an account can hold.
PermissionSets ==
  SUBSET { Permission("r1", NoResidence), Permission("r2", NoResidence), Permission(NoResidence, "a1") }

\* The outcomes of the calls of one discovery.
DiscoveryOutcomes ==
  UNION { { [ f \in DiscoveryCalls |-> IF f \in failing THEN kinds[f] ELSE "ok" ] :
              kinds \in [failing -> FetchFailures] } :
          failing \in { s \in SUBSET DiscoveryCalls : Cardinality(s) <= MaxFailures } }

\* The coordinator is constructed: nothing is discovered, nothing is
\* cached and there is no connection.
InitDiscover ==
  /\ whems = NoDict
  /\ panels = NoDict
  /\ breakers = NoDict
  /\ cts = NoDict
  /\ daily_baselines = NoDict
  /\ TrackerInit
  /\ today = 0
  /\ now = ClockStep
  /\ WsManagerInit
  /\ ObsInit

Discover ==
  \E permissions \in PermissionSets, out \in DiscoveryOutcomes :
    DiscoverDevices(permissions, out)

NextDiscover == Discover \/ Settle

SpecDiscover == InitDiscover /\ [][NextDiscover]_vars

\* ------------------------------------------ coordinator.py: first refresh

\* The order _async_setup takes its steps in, baselines first.
BaselinesBeforeCorrection ==
  << "discover", "load", "connect", "correct", "firmware", "midnight" >>

\* The order _async_setup takes its steps in.
SetupOrder == << "discover", "correct", "connect", "load", "firmware", "midnight" >>

\* The setup task with `done` steps behind it: at its next step, or over.
SetupAt(done) ==
  IF done < Len(SetupOrder) THEN Task("setup", SetupOrder[done + 1], None, done)
  ELSE NoTask

\* What a step of _async_setup leaves of the task at i, and what is
\* observed of it: the step, the task that took it and how it ended.
SetupObserve(i, step, result, failed) ==
  /\ tasks' = Put(tasks, i, IF failed THEN NoTask ELSE SetupAt(tasks[i].attempt + 1))
  /\ op' = step
  /\ arg' = tasks[i]
  /\ prev' = Snapshot
  /\ ret' = result
  /\ fired' = 0
  /\ handed' = <<>>

\* await self._discover_devices(): an exception ends the setup.
SetupDiscover(i, permissions, out) ==
  LET r == DiscoverDevicesResult(permissions, out)
  IN /\ op = "idle"
     /\ tasks[i].kind = "setup"
     /\ tasks[i].pc = "discover"
     /\ whems' = IF r.assigned THEN r.store.w ELSE whems
     /\ panels' = IF r.assigned THEN r.store.p ELSE panels
     /\ breakers' = IF r.assigned THEN r.store.b ELSE breakers
     /\ cts' = IF r.assigned THEN r.store.c ELSE cts
     /\ writes' = <<>>
     /\ SetupObserve(i, "setup_discover", [ result |-> r.result, calls |-> r.calls ],
                     r.result # "ok")
     /\ UNCHANGED <<daily_baselines, trackerVars, clockVars, histVars>>
     /\ UNCHANGED <<ws, last_ws_notification, reconnecting, ws_remove_notification,
                    ws_remove_disconnect, keepalive_unsub, watchdog_unsub,
                    bandwidth_unsub, conns, reauth>>

\* await self._correct_energy_values()
SetupCorrect(i) ==
  LET bs == CorrectDevices(DOMAIN breakers, breakers, lifetime_store,
                           BREAKER_CACHE_FIELDS, "")
      cs == CorrectDevices(DOMAIN cts, cts, bs.stored, CT_CACHE_FIELDS, "ct_")
      changed == bs.changed \/ cs.changed
  IN /\ op = "idle"
     /\ tasks[i].kind = "setup"
     /\ tasks[i].pc = "correct"
     /\ breakers' = bs.devices
     /\ cts' = cs.devices
     /\ lifetime_store' = IF changed THEN cs.stored ELSE lifetime_store
     /\ writes' = IF changed THEN << Saved("lifetime_energy", cs.stored) >> ELSE <<>>
     /\ SetupObserve(i, "setup_correct", None, FALSE)
     /\ UNCHANGED <<whems, panels, daily_baselines, baseline_store,
                    energy_high_water, clockVars, histVars>>
     /\ UNCHANGED <<ws, last_ws_notification, reconnecting, ws_remove_notification,
                    ws_remove_disconnect, keepalive_unsub, watchdog_unsub,
                    bandwidth_unsub, conns, reauth>>

\* await self._connect_websocket(), start to end: the connection is
\* established with its callbacks and timers, refused (the setup goes on
\* without it) or broken by an exception that ends the setup.
SetupConnect(i, outcome) ==
  /\ op = "idle"
  /\ tasks[i].kind = "setup"
  /\ tasks[i].pc = "connect"
  /\ IF outcome = "connected"
     THEN /\ conns' = Append(conns, [ state |-> "open", on_notification |-> TRUE,
                                      on_disconnect |-> TRUE ])
          /\ ws' = Len(conns) + 1
          /\ last_ws_notification' = now
          /\ ws_remove_notification' = Len(conns) + 1
          /\ ws_remove_disconnect' = Len(conns) + 1
          /\ StartKeepalive
     ELSE /\ conns' = Append(conns, ClosedConn)
          /\ ws' = IF outcome = "LevitonConnectionError" THEN None ELSE Len(conns) + 1
          /\ UNCHANGED <<last_ws_notification, ws_remove_notification,
                         ws_remove_disconnect, keepalive_unsub, watchdog_unsub,
                         bandwidth_unsub>>
  /\ writes' = <<>>
  /\ SetupObserve(i, "setup_connect", outcome, outcome = "OSError")
  /\ UNCHANGED <<storeVars, trackerVars, clockVars, histVars, reconnecting, reauth>>

\* await self._load_daily_baselines()
SetupLoad(i) ==
  /\ op = "idle"
  /\ tasks[i].kind = "setup"
  /\ tasks[i].pc = "load"
  /\ LoadedBaselines
  /\ SetupObserve(i, "setup_load", None, FALSE)
  /\ UNCHANGED <<whems, panels, breakers, cts, lifetime_store, energy_high_water,
                 clockVars, histVars>>
  /\ UNCHANGED <<ws, last_ws_notification, reconnecting, ws_remove_notification,
                 ws_remove_disconnect, keepalive_unsub, watchdog_unsub,
                 bandwidth_unsub, conns, reauth>>

\* self._check_firmware_updates() and the registration of the midnight
\* handler: neither touches the store, the tracker or the connection.
SetupRest(i) ==
  /\ op = "idle"
  /\ tasks[i].kind = "setup"
  /\ tasks[i].pc \in { "firmware", "midnight" }
  /\ writes' = <<>>
  /\ SetupObserve(i, IF tasks[i].pc = "firmware" THEN "setup_firmware" ELSE "setup_midnight",
                  None, FALSE)
  /\ UNCHANGED <<storeVars, trackerVars, clockVars, histVars>>
  /\ UNCHANGED <<ws, last_ws_notification, reconnecting, ws_remove_notification,
                 ws_remove_disconnect, keepalive_unsub, watchdog_unsub,
                 bandwidth_unsub, conns, reauth>>

\* ----------------------------------------- the first-refresh specification

\* What the lifetime cache holds from an earlier session: nothing, or a
\* total the discovered readings are period deltas against.
SetupCaches == { NoDict, "b1" :> (2 * MaxE + 1) }

\* The coordinator is constructed and its first refresh begins.
InitSetup ==
  /\ whems = NoDict
  /\ panels = NoDict
  /\ breakers = NoDict
  /\ cts = NoDict
  /\ daily_baselines = NoDict
  /\ lifetime_store \in SetupCaches
  /\ baseline_store = NoDict
  /\ energy_high_water = NoDict
  /\ today = 0
  /\ now = ClockStep
  /\ ws = None
  /\ last_ws_notification = 0
  /\ reconnecting = FALSE
  /\ ws_remove_notification = None
  /\ ws_remove_disconnect = None
  /\ keepalive_unsub = FALSE
  /\ watchdog_unsub = FALSE
  /\ bandwidth_unsub = FALSE
  /\ conns = <<>>
  /\ tasks = << SetupAt(0) >>
  /\ reauth = 0
  /\ ObsInit

SetupDiscovers ==
  \E i \in DOMAIN tasks, permissions \in PermissionSets, out \in DiscoveryOutcomes :
    SetupDiscover(i, permissions, out)

SetupCorrects == \E i \in DOMAIN tasks : SetupCorrect(i)

SetupConnects ==
  \E i \in DOMAIN tasks, outcome \in ConnectOutcomes : SetupConnect(i, outcome)

SetupLoadsBaselines == \E i \in DOMAIN tasks : SetupLoad(i)

SetupRests == \E i \in DOMAIN tasks : SetupRest(i)

NextSetup ==
  \/ SetupDiscovers
  \/ SetupCorrects
  \/ SetupConnects
  \/ SetupLoadsBaselines
  \/ SetupRests
  \/ Settle

SpecSetup == InitSetup /\ [][NextSetup]_vars

\* -------------------------------------------- the shutdown specification

ShutdownCalls ==
  \E i \in DOMAIN tasks, outcome \in BandwidthOutcomes : ShutdownCall(i, outcome)

ShutdownDisconnects == \E i \in DOMAIN tasks : ShutdownDisconnected(i)

\* The manager of InitPoll is shut down, once or again.
NextShutdown ==
  \/ ShutdownStart
  \/ ShutdownCalls
  \/ ShutdownDisconnects
  \/ Settle

SpecShutdown == InitPoll /\ [][NextShutdown]_vars

\* ------------------------------ the shutdown-and-reconnection specification

\* A hub with one breaker is discovered; the manager holds an open
\* connection with its timers running, or has lost its connection and is
\* in the first delay of a reconnection sequence.
InitFinal ==
  /\ whems = ("w1" :> NewWhem)
  /\ panels = NoDict
  /\ breakers = ("b1" :> NewBreaker(1, "w1", FALSE, <<MaxE, None, None>>))
  /\ cts = NoDict
  /\ daily_baselines = NoDict
  /\ TrackerInit
  /\ today = 0
  /\ now = 0
  /\ last_ws_notification = 0
  /\ reauth = 0
  /\ \/ /\ ws = 1
        /\ conns = << [ state |-> "open", on_notification |-> TRUE, on_disconnect |-> TRUE ] >>
        /\ reconnecting = FALSE
        /\ ws_remove_notification = 1
        /\ ws_remove_disconnect = 1
        /\ keepalive_unsub = TRUE
        /\ watchdog_unsub = TRUE
        /\ bandwidth_unsub = TRUE
        /\ tasks = <<>>
     \/ /\ ws = None
        /\ conns = << ClosedConn >>
        /\ reconnecting = TRUE
        /\ ws_remove_notification = None
        /\ ws_remove_disconnect = None
        /\ keepalive_unsub = FALSE
        /\ watchdog_unsub = FALSE
        /\ bandwidth_unsub = FALSE
        /\ tasks = << Task("reconnect", "sleeping", None, 1) >>
  /\ ObsInit

\* The manager is shut down while the transport, a reconnection sequence
\* and the cancellation of its task go on.
NextFinal ==
  \/ ShutdownStart
  \/ ShutdownCalls
  \/ ShutdownDisconnects
  \/ TransportDisconnects
  \/ ReconnectStarts
  \/ ReconnectWakes
  \/ ReconnectValidates
  \/ ReconnectCancels
  \/ ConnectResults
  \/ Subscribed
  \/ Settle

SpecFinal == InitFinal /\ [][NextFinal]_vars

\* ------------------------------------------- the firmware specification

\* A version has at most this many pieces.
MaxVersionLen == 3

\* The pieces of a version string: numbers, a word, nothing.
VersionPieces == Numerals \cup { "beta", "" }

\* The firmware versions a hub can report, None included.
Versions ==
  { NoVersion } \cup UNION { [1..n -> VersionPieces] : n \in 1..MaxVersionLen }

\* One hub is discovered, with any firmware version.
InitFirmware ==
  /\ \E v \in Versions : whems = ("w1" :> [NewWhem EXCEPT !.version = v])
  /\ panels = NoDict
  /\ breakers = NoDict
  /\ cts = NoDict
  /\ daily_baselines = NoDict
  /\ TrackerInit
  /\ today = 0
  /\ now = 0
  /\ WsManagerInit
  /\ ObsInit

\* needs_individual_breaker_subs is called on the hub.
NeedsIndividualBreakerSubs ==
  \E id \in DOMAIN whems :
    /\ op = "idle"
    /\ op' = "needs_individual_breaker_subs"
    /\ arg' = whems[id].version
    /\ prev' = Snapshot
    /\ ret' = needs_individual_breaker_subs(whems[id].version)
    /\ writes' = <<>>
    /\ fired' = 0
    /\ handed' = <<>>
    /\ UNCHANGED <<storeVars, trackerVars, clockVars, wsVars, histVars>>

NextFirmware == NeedsIndividualBreakerSubs \/ Settle

SpecFirmware == InitFirmware /\ [][NextFirmware]_vars

\* --------------------------------------- the subscription specification

\* The firmware versions of the first hub: none, one below the threshold,
\* 2.0, 2.0.0, one above and one that is not a number.
HubVersions ==
  { NoVersion, << "1", "7" >>, << "2", "0" >>, << "2", "0", "0" >>,
    << "2", "0", "13" >>, << "beta" >> }

\* The firmware versions of the second hub.
SecondHubVersions == { << "1", "7" >>, << "2", "0", "13" >> }

\* The stores connect() finds: no hub, one hub with two breakers, or two
\* hubs, the second with one breaker; with or without a panel and its
\* breaker.
SubscriptionStores ==
  LET first(v) == "w1" :> [NewWhem EXCEPT !.version = v]
      second(v) == "w2" :> [NewWhem EXCEPT !.version = v]
      firstBreakers == ("b1" :> NewBreaker(1, "w1", FALSE, <<MaxE, None, None>>))
                       @@ ("b3" :> NewBreaker(2, "w1", FALSE, <<MaxE, MaxE, None>>))
      secondBreakers == "b2" :> NewBreaker(1, "w2", FALSE, <<MaxE, None, None>>)
      panelBreakers == "b4" :> NewBreaker(1, "", TRUE, <<MaxE, None, None>>)
      hubs == { [ w |-> NoDict, b |-> NoDict ] }
              \cup { [ w |-> first(v), b |-> firstBreakers ] : v \in HubVersions }
              \cup { [ w |-> first(v[1]) @@ second(v[2]),
                       b |-> firstBreakers @@ secondBreakers ] :
                       v \in HubVersions \X SecondHubVersions }
  IN { [ w |-> h.w, p |-> NoDict, b |-> h.b ] : h \in hubs }
     \cup { [ w |-> h.w, p |-> ("p1" :> NewPanel), b |-> h.b @@ panelBreakers ] :
            h \in hubs }

\* The connection is established and its callbacks are registered.
InitSubscribe ==
  /\ \E s \in SubscriptionStores :
       /\ whems = s.w
       /\ panels = s.p
       /\ breakers = s.b
  /\ cts = NoDict
  /\ daily_baselines = NoDict
  /\ TrackerInit
  /\ today = 0
  /\ now = 0
  /\ ws = 1
  /\ conns = << [ state |-> "open", on_notification |-> TRUE, on_disconnect |-> TRUE ] >>
  /\ last_ws_notification = 0
  /\ reconnecting = FALSE
  /\ ws_remove_notification = 1
  /\ ws_remove_disconnect = 1
  /\ keepalive_unsub = FALSE
  /\ watchdog_unsub = FALSE
  /\ bandwidth_unsub = FALSE
  /\ tasks = <<>>
  /\ reauth = 0
  /\ ObsInit

\* The call of each device's try block that fails: none, or any of them.
FailingCalls ==
  { f[1] @@ f[2] @@ f[3] :
      f \in [ DOMAIN whems -> 0..Len(HubCalls("")) ]
            \X [ DOMAIN panels -> 0..Len(PanelCalls("")) ]
            \X [ DOMAIN breakers -> 0..Len(BreakerCalls("")) ] }

ConnectSubscriptions == \E fails \in FailingCalls : ConnectSubscribes(fails)

NextSubscribe == ConnectSubscriptions \/ Settle

SpecSubscribe == InitSubscribe /\ [][NextSubscribe]_vars

\* --------------------------------------------- properties: daily energy

\* C6 as stated: calc_daily_energy returns max(0, lifetime - baseline), and
\* no value when the lifetime is unknown or the key has no baseline.
C6_DailyNeverNegative_AsStated ==
  op = "calc_daily_energy" =>
    IF arg.lifetime = None \/ arg.breaker_id \notin DOMAIN daily_baselines
    THEN ret = None
    ELSE LET daily == arg.lifetime - daily_baselines[arg.breaker_id]
         IN ret = IF daily > 0 THEN daily ELSE 0

\* C6, amended: calc_daily_energy returns max(0, lifetime - baseline)
\* rounded to two decimals, which is never negative and is 0 when the
\* lifetime is below the baseline, and no value when the lifetime is unknown
\* or the key has no baseline.
C6_DailyNeverNegative ==
  op = "calc_daily_energy" =>
    IF arg.lifetime = None \/ arg.breaker_id \notin DOMAIN daily_baselines
    THEN ret = None
    ELSE LET daily == arg.lifetime - daily_baselines[arg.breaker_id]
         IN /\ ret >= 0
            /\ IF daily > 0 THEN Nearest(ret, daily, Centi) ELSE ret = 0

\* A lifetime more than 0.005 below its baseline read 0.
C6_Witness ==
  /\ op = "calc_daily_energy"
  /\ arg.lifetime # None
  /\ arg.breaker_id \in DOMAIN daily_baselines
  /\ 2 * (daily_baselines[arg.breaker_id] - arg.lifetime) > Centi
  /\ ret = 0

\* The breakers whose lifetime energy is known.
KnownBreakers == { id \in DOMAIN breakers : BreakerEnergy(breakers[id]) # None }

\* The lifetime energy of a breaker, summed across its poles.
PoleSum(breaker) ==
  breaker["energy_consumption"]
  + (IF breaker["poles"] = 2 /\ breaker["energy_consumption_2"] # None
     THEN breaker["energy_consumption_2"] ELSE 0)

BothPersisted ==
  /\ writes = << Saved("daily_baselines",
                       [ date |-> today, baselines |-> daily_baselines ]),
                 Saved("lifetime_energy", lifetime_store) >>
  /\ baseline_store = [ date |-> today, baselines |-> daily_baselines ]
  /\ \A id \in DOMAIN breakers : \A f \in BREAKER_CACHE_FIELDS :
       Get(lifetime_store, id \o f[2]) = breakers[id][f[1]]
  /\ \A id \in DOMAIN cts : \A f \in CT_CACHE_FIELDS :
       Get(lifetime_store, "ct_" \o id \o f[2]) = cts[id][f[1]]

\* C7 as stated: right after handle_midnight the baseline of every breaker
\* whose lifetime energy is known equals the lifetime energy its sensor
\* presents and its daily energy reads 0; the baselines, tagged with the
\* current date, and the lifetime cache have both been persisted.
C7_MidnightRollover_AsStated ==
  op = "handle_midnight" =>
    /\ \A id \in KnownBreakers :
         /\ id \in DOMAIN daily_baselines
         /\ daily_baselines[id] = BreakerEnergy(breakers[id])
         /\ CalcDailyEnergy(id, BreakerEnergy(breakers[id]), daily_baselines) = {0}
    /\ BothPersisted

\* C7, amended: right after handle_midnight the baseline of every breaker
\* whose lifetime energy is known equals its lifetime energy, summed across
\* poles, rounded to three decimals, and its daily energy reads 0; the
\* baselines, tagged with the current date, and the lifetime cache have both
\* been persisted.
C7_MidnightRollover ==
  op = "handle_midnight" =>
    /\ \A id \in KnownBreakers :
         /\ id \in DOMAIN daily_baselines
         /\ Nearest(daily_baselines[id], PoleSum(breakers[id]), Milli)
         /\ CalcDailyEnergy(id, BreakerEnergy(breakers[id]), daily_baselines) = {0}
    /\ BothPersisted

\* A rollover on a later day moved the baseline of a two-pole breaker with
\* both poles read.
C7_Witness ==
  /\ op = "handle_midnight"
  /\ today > 0
  /\ \E id \in KnownBreakers :
       /\ breakers[id]["poles"] = 2
       /\ breakers[id]["energy_consumption_2"] # None
       /\ breakers[id]["energy_consumption_2"] > 0
       /\ id \in DOMAIN prev.baselines
       /\ prev.baselines[id] # daily_baselines[id]

\* The baselines a snapshot of the current devices records.
IsFreshSnapshot(baselines) ==
  /\ DOMAIN baselines = KnownBreakers \cup { "ct_" \o id : id \in DOMAIN cts }
  /\ \A id \in KnownBreakers :
       Nearest(baselines[id], PoleSum(breakers[id]), Milli)
  /\ \A id \in DOMAIN cts :
       Nearest(baselines["ct_" \o id],
               OrZero(cts[id]["energy_consumption"])
               + OrZero(cts[id]["energy_consumption_2"]), Milli)

\* C8: load_daily_baselines uses the persisted baselines, and saves nothing,
\* when a persisted snapshot exists and is dated today; in every other case
\* the baselines are a snapshot of the current devices, persisted with
\* today's date, and nothing of a snapshot dated another day is used.
C8_LoadDailyBaselines ==
  op = "load_daily_baselines" =>
    IF prev.saved # NoDict /\ "date" \in DOMAIN prev.saved /\ prev.saved["date"] = today
    THEN /\ daily_baselines = prev.saved["baselines"]
         /\ writes = <<>>
         /\ baseline_store = prev.saved
    ELSE /\ IsFreshSnapshot(daily_baselines)
         /\ writes = << Saved("daily_baselines",
                              [ date |-> today, baselines |-> daily_baselines ]) >>
         /\ baseline_store = [ date |-> today, baselines |-> daily_baselines ]

\* A snapshot dated another day was found, with baselines other than the
\* current ones, and was replaced.
C8_Witness ==
  /\ op = "load_daily_baselines"
  /\ prev.saved # NoDict
  /\ "date" \in DOMAIN prev.saved
  /\ prev.saved["date"] # today
  /\ prev.saved["baselines"] # daily_baselines
  /\ baseline_store["date"] = today

\* ------------------------------------------ properties: the connection

\* The reconnection tasks that are scheduled and have not begun.
Created(ts) == { i \in DOMAIN ts : ts[i] = NewReconnect }

\* The reconnection tasks whose backoff sequence is executing.
Running(ts) == { i \in DOMAIN ts : ts[i].kind = "reconnect" /\ ts[i].pc # "created" }

\* How many reconnection tasks the last handler scheduled.
Scheduled == Cardinality(Created(tasks)) - Cardinality(Created(prev.tasks))

TimersStopped == ~keepalive_unsub /\ ~watchdog_unsub /\ ~bandwidth_unsub

\* What a watchdog tick does, by what it finds: on an open connection that
\* has been silent for more than 90 seconds, with no reconnection in
\* progress, it disconnects the connection; within 90 seconds of the last
\* notification, without a connection reference or with a reconnection in
\* progress it changes nothing and schedules nothing.
WatchdogTicks ==
  op \in { "watchdog_skipped", "watchdog_teardown" } =>
    LET silence == now - prev.last_ws_notification
    IN /\ ( /\ prev.ws # None
            /\ prev.conns[prev.ws].state = "open"
            /\ ~prev.reconnecting
            /\ silence > StaleSeconds )
          => /\ op = "watchdog_teardown"
             /\ conns[prev.ws].state = "closed"
             /\ ~conns[prev.ws].on_disconnect
       /\ (silence < StaleSeconds \/ prev.ws = None \/ prev.reconnecting)
          => /\ op = "watchdog_skipped"
             /\ WsSnapshot = prev

\* The watchdog that has just finished had found its connection open and
\* silent for more than 90 seconds.
TrippedWatchdogDone == op = "watchdog_done" /\ arg.conn \in tripped

\* C9 as stated: a watchdog tick on an open connection whose last
\* notification is more than 90 seconds old disconnects the connection,
\* clears the reference and schedules exactly one reconnection task; a tick
\* right after it, and a tick within 90 seconds of the last notification,
\* change nothing.
C9_WatchdogReconnect_AsStated ==
  /\ WatchdogTicks
  /\ TrippedWatchdogDone =>
       /\ conns[arg.conn].state = "closed"
       /\ ws = None
       /\ Scheduled = 1

\* C9, amended: a watchdog tick on an open connection whose last
\* notification is more than 90 seconds old disconnects the connection and,
\* once the disconnect has completed, clears the reference, stops the
\* timers and schedules exactly one reconnection task, or none when a
\* reconnection sequence has begun while the disconnect was awaited; a tick
\* that finds no connection reference or a reconnection in progress, as
\* one right after it does, and a tick within 90 seconds of the last
\* notification, change nothing.
C9_WatchdogReconnect ==
  /\ WatchdogTicks
  /\ TrippedWatchdogDone =>
       /\ conns[arg.conn].state = "closed"
       /\ ws = None
       /\ TimersStopped
       /\ Scheduled = IF prev.reconnecting THEN 0 ELSE 1
       /\ ~prev.reconnecting => Running(tasks) = {}

\* A watchdog that found its connection open and silent for more than 90
\* seconds has finished: the connection is closed, the reference is
\* cleared and one reconnection task is scheduled.
C9_Witness ==
  /\ TrippedWatchdogDone
  /\ now - prev.last_ws_notification > StaleSeconds
  /\ conns[arg.conn].state = "closed"
  /\ ws = None
  /\ Scheduled = 1

\* C10: at most one reconnection backoff sequence is executing at any time,
\* and the in-progress flag is set exactly while one is; a reconnection
\* task that begins while a sequence is executing ends at once, leaving the
\* connection, the timers, the flag and the executing sequence as they
\* were, and a task only begins a sequence when none is executing.
C10_SingleReconnect ==
  /\ Cardinality(Running(tasks)) <= 1
  /\ reconnecting <=> Running(tasks) # {}
  /\ op = "reconnect_started" => Running(prev.tasks) = {}
  /\ op = "reconnect_skipped" =>
       /\ Running(prev.tasks) # {}
       /\ reconnecting
       /\ { tasks[i] : i \in Running(tasks) } = { prev.tasks[i] : i \in Running(prev.tasks) }
       /\ Len(tasks) = Len(prev.tasks) - 1
       /\ [ WsSnapshot EXCEPT !.tasks = prev.tasks ] = prev

\* A reconnection task began while a sequence was sleeping, validating
\* or connecting, and ended without taking part.
C10_Witness ==
  /\ op = "reconnect_skipped"
  /\ \E i \in Running(tasks) : tasks[i].pc \in { "sleeping", "validating", "connecting" }

\* The tasks of one kind that are inside connect(): awaiting the new
\* connection or its bandwidth and subscribe calls.
Connecting(kind) ==
  { i \in DOMAIN tasks : tasks[i].kind = kind /\ tasks[i].pc \in { "connecting", "subscribing" } }

\* C11: with reconnection tasks scheduled by the disconnect handler only,
\* the proactive refresh and the backoff sequence are never both inside a
\* connection attempt at the same time.
C11_NoOverlappingAttempts ==
  reconnect_from \subseteq { "disconnect" } =>
    ~(Connecting("refresh") # {} /\ Connecting("reconnect") # {})

\* C12: when the token check of a reconnection sequence fails with an
\* authentication failure, re-authentication is requested once, the sequence
\* ends there (its task is gone and no sequence is left sleeping, validating
\* or connecting), no connection is created, the connection reference is as
\* it was (absent stays absent) and the in-progress flag is cleared.
C12_ReconnectAuthFailure ==
  op = "reconnect_reauth" =>
    /\ reauth = prev.reauth + 1
    /\ tasks = Remove(prev.tasks, CHOOSE i \in DOMAIN prev.tasks : prev.tasks[i] = arg)
    /\ Running(tasks) = {}
    /\ ~reconnecting
    /\ conns = prev.conns
    /\ ws = prev.ws
    /\ prev.ws = None => ws = None
    /\ <<keepalive_unsub, watchdog_unsub, bandwidth_unsub>> = prev.timers

\* A sequence whose token check failed with an authentication failure has
\* ended, with the connection absent before and after.
C12_Witness ==
  /\ op = "reconnect_reauth"
  /\ arg.pc = "validating"
  /\ prev.reconnecting
  /\ prev.ws = None
  /\ ws = None
  /\ reauth = 1

\* The last attempt of a reconnection sequence has just failed: the token
\* check could not reach the API, or the connection was refused or raised.
Exhausted ==
  /\ op \in { "reconnect_unreachable", "connect_refused", "connect_raised" }
  /\ arg.kind = "reconnect"
  /\ arg.attempt = Len(Delays)

\* C13: a reconnection sequence makes at most five attempts, sleeping 10,
\* 30, 60, 120 and 300 seconds before them in that order; whenever no
\* sequence is executing the in-progress flag is clear; and when the fifth
\* attempt has failed the sequence is over, the flag is clear and the
\* connection reference is absent.
C13_BackoffTerminates ==
  /\ \A i \in Running(tasks) : tasks[i].attempt \in 1..5
  /\ op = "reconnect_woke" => ret = <<10, 30, 60, 120, 300>>[arg.attempt]
  /\ Running(tasks) = {} => ~reconnecting
  /\ Exhausted =>
       /\ Running(tasks) = {}
       /\ ~reconnecting
       /\ ws = None

Polled(call, id) ==
  \E n \in DOMAIN ret.calls : ret.calls[n] = Fetch(call, id)

\* C14: a polling refresh re-fetches every panel and its breakers whether
\* or not the live connection is up, re-fetches the hubs, their breakers
\* and their channels only when the live connection is down, and with the
\* connection up and no panels issues no fetch and returns the store
\* unchanged.
C14_PollingCoverage ==
  (op = "async_update_data" /\ arg.k = 0) =>
    /\ \A id \in DOMAIN panels :
         Polled("get_panel", id) /\ Polled("get_panel_breakers", id)
    /\ \A id \in DOMAIN whems :
         /\ Polled("get_whem", id) <=> ws = None
         /\ Polled("get_whem_breakers", id) <=> ws = None
         /\ Polled("get_cts", id) <=> ws = None
    /\ (ws # None /\ panels = NoDict) =>
         /\ ret.calls = <<>>
         /\ ret.result = "data"
         /\ Snapshot = prev

\* What correct_energy_values leaves behind: no reading of the store is a
\* period delta against the lifetime cache, and the cache holds every
\* reading that is a first one or a new maximum.
EnergyCorrected ==
  /\ \A id \in DOMAIN breakers :
       /\ DeltaFields(id, breakers[id], lifetime_store, BREAKER_CACHE_FIELDS, "") = {}
       /\ NewMaxFields(id, breakers[id], lifetime_store, BREAKER_CACHE_FIELDS, "") = {}
  /\ \A id \in DOMAIN cts :
       /\ DeltaFields(id, cts[id], lifetime_store, CT_CACHE_FIELDS, "ct_") = {}
       /\ NewMaxFields(id, cts[id], lifetime_store, CT_CACHE_FIELDS, "ct_") = {}

\* C15: when a polling refresh that re-fetched device state over REST
\* returns, correct_energy_values has been applied to the refreshed store
\* and the lifetime cache is persisted: no fresh period delta is left in
\* the store as a lifetime value.
C15_CorrectedAfterPoll ==
  (op = "async_update_data" /\ ret.result = "data" /\ ret.calls # <<>>) =>
    EnergyCorrected

\* C16: when a fetch of a polling refresh fails, the refresh ends with the
\* re-authentication signal for an authentication failure and with a
\* retryable update failure for a transport failure; the failed fetch is
\* the last one awaited, so no fetch is retried and no remaining device is
\* fetched.
C16_PollingFailure ==
  (op = "async_update_data" /\ arg.k > 0 /\ ret.calls # <<>>) =>
    /\ arg.failure = "LevitonAuthError" => ret.result = "ConfigEntryAuthFailed"
    /\ arg.failure = "LevitonConnectionError" => ret.result = "UpdateFailed"
    /\ Len(ret.calls) = arg.k
    /\ \A n \in DOMAIN ret.calls : ret.calls[n] = FetchPlan[n]
    /\ \A n, j \in DOMAIN ret.calls : n # j => ret.calls[n] # ret.calls[j]

\* A poll of a hub and a panel whose second fetch fails on authentication.
C16_Witness ==
  /\ op = "async_update_data"
  /\ arg.k = 2
  /\ arg.failure = "LevitonAuthError"
  /\ Len(FetchPlan) = 5
  /\ Len(ret.calls) = 2
  /\ ret.result = "ConfigEntryAuthFailed"

\* ------------------------------------------- properties: the discovery

Elements(seq) == { seq[n] : n \in DOMAIN seq }

\* The call answered in the discovery that has just ended.
Answered(call, id) == arg.out[Fetch(call, id)] = "ok"

\* The residences the discovery that has just ended went through.
ResidencesFound ==
  { perm.residence_id :
      perm \in { q \in arg.permissions : q.residence_id # NoResidence } }
  \cup
  UNION { IF Answered("get_residences", q.residential_account_id)
          THEN Elements(CloudResidences(q.residential_account_id)) ELSE {} :
          q \in { q \in arg.permissions : q.residential_account_id # NoResidence } }

\* C17: a transport failure of a fetch below the permissions call drops
\* only the subtree of that fetch: the panels of a residence and their
\* breakers are in the store whenever their own fetches answered, whether
\* or not the hub fetch of the residence did, and symmetrically; a hub
\* whose breaker fetch failed is in the store with its channels.
C17_PartialDiscovery ==
  ( /\ op = "discover_devices"
    /\ Answered("get_permissions", "")
    /\ \A f \in DiscoveryCalls : arg.out[f] # "LevitonAuthError" ) =>
    /\ ret.result = "ok"
    /\ \A r \in ResidencesFound :
         /\ \A w \in Elements(CloudWhems(r)) :
              /\ w \in DOMAIN whems <=> Answered("get_whems", r)
              /\ \A b \in DOMAIN CloudWhemBreakers(w) :
                   b \in DOMAIN breakers <=>
                     Answered("get_whems", r) /\ Answered("get_whem_breakers", w)
              /\ \A c \in DOMAIN CloudCts(w) :
                   c \in DOMAIN cts <=> Answered("get_whems", r) /\ Answered("get_cts", w)
         /\ \A p \in Elements(CloudPanels(r)) :
              /\ p \in DOMAIN panels <=> Answered("get_panels", r)
              /\ \A b \in DOMAIN CloudPanelBreakers(p) :
                   b \in DOMAIN breakers <=>
                     Answered("get_panels", r) /\ Answered("get_panel_breakers", p)

\* The hub fetch of residence r1 failed: its panel and the panel's
\* breaker are in the store, its hub is not.
C17_Witness ==
  /\ op = "discover_devices"
  /\ arg.out[Fetch("get_whems", "r1")] = "LevitonConnectionError"
  /\ ret.result = "ok"
  /\ whems = NoDict
  /\ "p1" \in DOMAIN panels
  /\ "b2" \in DOMAIN breakers

\* C18: an authentication failure of any call of discovery (permissions,
\* residences, hubs, panels, breakers or channels) ends discovery with the
\* re-authentication signal, the failed call being the last one; a
\* transport failure of the permissions call ends it with a retryable
\* update failure.
C18_DiscoveryAuthFailure ==
  op = "discover_devices" =>
    /\ \A n \in DOMAIN ret.calls :
         arg.out[ret.calls[n]] = "LevitonAuthError" =>
           ret.result = "ConfigEntryAuthFailed" /\ n = Len(ret.calls)
    /\ arg.out[Fetch("get_permissions", "")] = "LevitonConnectionError" =>
         ret.result = "UpdateFailed" /\ Len(ret.calls) = 1

\* -------------------------------------------- properties: the shutdown

\* C20: while shutdown is under way the housekeeping timers are stopped
\* and no connection carries a callback, so both are cancelled before the
\* connection is torn down; and however the bandwidth calls fail, shutdown
\* ends having asked every panel and every hub to stop streaming, with
\* every connection disconnected and the connection reference absent.
C20_ShutdownCompletes ==
  /\ (\E i \in DOMAIN tasks : tasks[i].kind = "shutdown") =>
       /\ TimersStopped
       /\ ws_remove_notification = None
       /\ ws_remove_disconnect = None
       /\ \A c \in DOMAIN conns : ~conns[c].on_notification /\ ~conns[c].on_disconnect
  /\ op \in { "shutdown_done", "shutdown_raised" } =>
       /\ arg.calls = ShutdownPlan
       /\ ws = None
       /\ \A c \in DOMAIN conns : conns[c].state = "closed"

\* ---------------------------------------- properties: the notifications

KnownModels == { "IotWhem", "ResidentialBreakerPanel", "ResidentialBreaker", "IotCt" }

\* The device ids the notification that has just been handled names, by
\* the store each belongs to: the parent or the device itself, and the
\* entries of its child arrays.
NamedIn(store) ==
  LET name == arg["modelName"]
      data == arg["data"]
      entries(key) == { Children(data, key)[i]["id"] : i \in DOMAIN Children(data, key) }
  IN CASE store = "whems" -> IF name = "IotWhem" THEN { arg["modelId"] } ELSE {}
       [] store = "panels" ->
            IF name = "ResidentialBreakerPanel" THEN { arg["modelId"] } ELSE {}
       [] store = "breakers" ->
            IF name = "ResidentialBreaker" THEN { arg["modelId"] }
            ELSE IF name \in { "IotWhem", "ResidentialBreakerPanel" }
            THEN entries("ResidentialBreaker") ELSE {}
       [] store = "cts" ->
            IF name = "IotCt" THEN { arg["modelId"] }
            ELSE IF name = "IotWhem" THEN entries("IotCt") ELSE {}

\* The notification names no device of the store.
NamesNoDevice ==
  /\ NamedIn("whems") \cap DOMAIN whems = {}
  /\ NamedIn("panels") \cap DOMAIN panels = {}
  /\ NamedIn("breakers") \cap DOMAIN breakers = {}
  /\ NamedIn("cts") \cap DOMAIN cts = {}

StoreUnchanged ==
  /\ whems = prev.w
  /\ panels = prev.p
  /\ breakers = prev.b
  /\ cts = prev.c

\* C21: a notification with an unknown model name, an empty payload or a
\* missing model id, and one that names no device of the store, leaves
\* every device record as it was, ends normally and fires no data-changed
\* notification.
C21_IgnoredNotifications ==
  ( /\ op = "ws_notification"
    /\ \/ arg["modelName"] \notin KnownModels
       \/ arg["data"] = NoDict
       \/ arg["modelId"] = NoId
       \/ NamesNoDevice ) =>
    /\ StoreUnchanged
    /\ ret = None
    /\ ~notified

\* A breaker notification for an id the store does not hold was handled.
C21_Witness ==
  /\ op = "ws_notification"
  /\ arg["modelName"] = "ResidentialBreaker"
  /\ arg["modelId"] = UnknownId
  /\ breakers # NoDict
  /\ StoreUnchanged
  /\ ~notified

\* ---------------------------------- properties: the firmware threshold

\* The tuple t with zeros appended up to n elements.
Padded(t, n) == [ k \in 1..n |-> IF k <= Len(t) THEN t[k] ELSE 0 ]

\* Version a is at or above version b: as numbers, element by element, a
\* missing element counting as zero.
AtOrAbove(a, b) ==
  LET n == Max(Len(a), Len(b))
      x == Padded(a, n)
      y == Padded(b, n)
  IN \/ x = y
     \/ \E k \in 1..n : x[k] > y[k] /\ \A j \in 1..(k - 1) : x[j] = y[j]

\* C22: needs_individual_breaker_subs returns true for a hub whose
\* firmware version is at or above 2.0.0 and for an absent or unparseable
\* version, and false for every parseable version below 2.0.0.
C22_FirmwareThreshold ==
  op = "needs_individual_breaker_subs" =>
    IF arg = NoVersion \/ ~Parseable(arg) THEN ret = TRUE
    ELSE ret = AtOrAbove(VersionParts(arg), FW_THRESHOLD)

\* --------------------------------------- properties: the first refresh

\* The steps of the first refresh that have run when the step observed
\* began.
StepsBefore == arg.attempt

WatchdogDecision ==
  /\ op = "watchdog_skipped" =>
       \/ prev.ws = None
       \/ prev.reconnecting
       \/ now - prev.last_ws_notification < StaleSeconds
  /\ op = "watchdog_teardown" =>
       /\ prev.ws # None
       /\ ~prev.reconnecting
       /\ now - prev.last_ws_notification >= StaleSeconds
       /\ ws_remove_disconnect = None
       /\ ws_remove_notification = None
       /\ \E i \in DOMAIN tasks : tasks[i] = Task("watchdog", "disconnecting", prev.ws, 0)

\* C24: the watchdog decides on the time since a notification was last
\* merged: it tears down a connection whose clock is 90 seconds old, and
\* a notification that was ignored leaves the clock where it was.
C24_StalenessCriterion ==
  /\ WatchdogDecision
  /\ (op = "ws_notification" /\ ~notified) => last_ws_notification = prev.seen

\* C24, amended: the watchdog decides on the time since a notification was
\* last received: every notification handled, merged or ignored, sets the
\* clock to the present.
C24_ReceivedCriterion ==
  /\ WatchdogDecision
  /\ op = "ws_notification" => last_ws_notification = now

\* An ignored notification has moved the clock.
C24_Witness ==
  /\ op = "ws_notification"
  /\ ~notified
  /\ arg["modelName"] = "Thermostat"
  /\ prev.seen < now
  /\ last_ws_notification = now

\* The watchdog has torn down a connection that was silent for the limit.
C24_TornDown == op = "watchdog_teardown" /\ now - prev.last_ws_notification = StaleSeconds

\* --------------------------------------- properties: the reconnection

\* The reconnection tasks that are inside a step of their sequence.
Reconnecting(ts) == { i \in DOMAIN ts : ts[i].kind = "reconnect" /\ ts[i].pc # "created" }

\* C25: a reconnection validates the session before each connection
\* attempt; a validation that fails with a transport failure makes no
\* attempt and goes on to the next delay; an attempt that returns with a
\* connection in place ends the sequence, with no delay, validation or
\* attempt after it.
C25_ReconnectStep ==
  /\ op = "reconnect_woke" =>
       \E i \in DOMAIN tasks : tasks[i] = Task("reconnect", "validating", None, arg.attempt)
  /\ op = "reconnect_connecting" =>
       /\ arg.pc = "validating"
       /\ Len(conns) = Len(prev.conns) + 1
  /\ op = "reconnect_unreachable" =>
       /\ conns = prev.conns
       /\ ws = prev.ws
       /\ IF arg.attempt < Len(Delays)
          THEN /\ \E i \in DOMAIN tasks :
                     tasks[i] = Task("reconnect", "sleeping", None, arg.attempt + 1)
               /\ reconnecting
          ELSE /\ Cardinality(Reconnecting(tasks)) = Cardinality(Reconnecting(prev.tasks)) - 1
               /\ ~reconnecting
  /\ (op = "subscribed" /\ arg.kind = "reconnect" /\ ws # None) =>
       /\ Cardinality(Reconnecting(tasks)) = Cardinality(Reconnecting(prev.tasks)) - 1
       /\ Len(tasks) = Len(prev.tasks) - 1
       /\ ~reconnecting
       /\ conns = prev.conns

\* A second attempt, made after a validation that could not reach the
\* API, has left a connection established and ended the sequence.
C25_Witness ==
  /\ op = "subscribed"
  /\ arg.kind = "reconnect"
  /\ arg.attempt = 2
  /\ ws = arg.conn
  /\ conns[ws].state = "open"
  /\ Reconnecting(tasks) = {}

\* A validation that could not reach the API has sent the sequence to its
\* next delay.
C25_Unreachable == op = "reconnect_unreachable" /\ arg.attempt = 1

\* C26: a reconnection cancelled while it waits in a delay makes no
\* validation call and no connection attempt afterwards, the cancellation
\* reaches the caller, and the in-progress flag is clear, so that the next
\* reconnection task is let through.
C26_ReconnectCancellable ==
  (op = "reconnect_cancelled" /\ arg.pc = "sleeping") =>
    /\ ret = "CancelledError"
    /\ ~reconnecting
    /\ ~InProgress(reconnecting)
    /\ Reconnecting(tasks) = {}
    /\ Len(tasks) = Len(prev.tasks) - 1
    /\ conns = prev.conns
    /\ ws = prev.ws
    /\ reauth = prev.reauth

\* A sequence was cancelled in its second delay.
C26_Witness ==
  /\ op = "reconnect_cancelled"
  /\ arg.pc = "sleeping"
  /\ arg.attempt = 2
  /\ prev.reconnecting

\* --------------------------------------- properties: the subscriptions

\* The calls connect() made for the device id, breaker subscriptions
\* aside, in the order it made them.
DeviceCalls(id) ==
  SelectSeq(ret, LAMBDA c : c.id = id /\ c.value # "ResidentialBreaker")

\* The calls are the first ones of the expected ones, in their order, and
\* all but the last have come back.
BeginsAs(calls, expected) ==
  /\ Len(calls) <= Len(expected)
  /\ \A n \in DOMAIN calls :
       /\ calls[n].fn = expected[n].fn
       /\ calls[n].value = expected[n].value
       /\ n < Len(calls) => calls[n].outcome = "ok"

\* Every expected call was made and has come back.
Completed(calls, expected) ==
  /\ Len(calls) = Len(expected)
  /\ BeginsAs(calls, expected)
  /\ \A n \in DOMAIN calls : calls[n].outcome = "ok"

HubExpected ==
  << [ fn |-> "set_whem_bandwidth", value |-> "1" ],
     [ fn |-> "set_whem_bandwidth", value |-> "0" ],
     [ fn |-> "set_whem_bandwidth", value |-> "1" ],
     [ fn |-> "subscribe", value |-> "IotWhem" ] >>

PanelExpected ==
  << [ fn |-> "set_panel_bandwidth", value |-> "True" ],
     [ fn |-> "subscribe", value |-> "ResidentialBreakerPanel" ] >>

\* C27: connect() sets a hub's bandwidth to 1, 0, 1 in that order before
\* it subscribes to the hub, and enables a panel's streaming before it
\* subscribes to the panel; a transport failure of one device's call
\* leaves the connection established, and every device none of whose calls
\* failed is toggled and subscribed.
C27_ConnectSequence ==
  op = "connect_subscribed" =>
    /\ \A id \in DOMAIN whems :
         /\ BeginsAs(DeviceCalls(id), HubExpected)
         /\ arg[id] = 0 => Completed(DeviceCalls(id), HubExpected)
    /\ \A id \in DOMAIN panels :
         /\ BeginsAs(DeviceCalls(id), PanelExpected)
         /\ arg[id] = 0 => Completed(DeviceCalls(id), PanelExpected)
    /\ ws = prev.ws
    /\ conns = prev.conns
    /\ conns[ws].state = "open"
    /\ keepalive_unsub
    /\ watchdog_unsub

\* The second bandwidth call of one hub has failed; the other hub and the
\* panel are toggled and subscribed.
C27_Witness ==
  /\ op = "connect_subscribed"
  /\ DOMAIN whems = { "w1", "w2" }
  /\ DOMAIN panels = { "p1" }
  /\ arg["w1"] = 2
  /\ arg["w2"] = 0
  /\ arg["p1"] = 0
  /\ Len(DeviceCalls("w1")) = 2
  /\ Completed(DeviceCalls("w2"), HubExpected)
  /\ Completed(DeviceCalls("p1"), PanelExpected)

\* The breakers connect() subscribed to individually.
SubscribedBreakers ==
  { ret[n].id : n \in { k \in DOMAIN ret : ret[k].value = "ResidentialBreaker" } }

\* The hub's firmware is at or above the threshold, or unknown.
AtThreshold(whem) ==
  \/ whem.version = NoVersion
  \/ ~Parseable(whem.version)
  \/ AtOrAbove(VersionParts(whem.version), FW_THRESHOLD)

\* C28: connect() subscribes to a breaker individually exactly when the
\* breaker's parent is a hub of the store whose firmware is at or above
\* the threshold or unknown, whatever became of the other breakers'
\* subscriptions.
C28_IndividualSubscriptions ==
  op = "connect_subscribed" =>
    \A id \in DOMAIN breakers :
      id \in SubscribedBreakers <=>
        /\ breakers[id]["iot_whem_id"] \in DOMAIN whems
        /\ AtThreshold(whems[breakers[id]["iot_whem_id"]])

\* ------------------------------ properties: the data-changed notification

\* The keys of a parent's payload that hold its child arrays.
ChildArrays(name) ==
  IF name = "IotWhem" THEN { "ResidentialBreaker", "IotCt" }
  ELSE IF name = "ResidentialBreakerPanel" THEN { "ResidentialBreaker" }
  ELSE {}

\* The fields of the notification that has just been handled that belong
\* to the parent itself.
OwnFields == DOMAIN arg["data"] \ ChildArrays(arg["modelName"])

\* The notification that has just been handled was merged into the record
\* of its hub or panel.
ParentMerged ==
  /\ OwnFields # {}
  /\ (NamedIn("whems") \cap DOMAIN whems) \cup (NamedIn("panels") \cap DOMAIN panels) # {}

\* The notification that has just been handled was merged into at least
\* one device record: its parent, a breaker or a channel.
RecordMerged ==
  /\ arg["data"] # NoDict
  /\ arg["modelId"] # NoId
  /\ \/ ParentMerged
     \/ NamedIn("breakers") \cap DOMAIN breakers # {}
     \/ NamedIn("cts") \cap DOMAIN cts # {}

\* C29: handling a notification fires the data-changed notification once
\* when at least one device record was merged, and never otherwise.
C29_DataChangedOnce ==
  op = "ws_notification" => fired = IF RecordMerged THEN 1 ELSE 0

\* A hub notification was merged into the hub and into a nested breaker.
C29_Witness ==
  /\ op = "ws_notification"
  /\ arg["modelName"] = "IotWhem"
  /\ ParentMerged
  /\ NamedIn("breakers") \cap DOMAIN breakers # {}
  /\ whems # prev.w
  /\ breakers # prev.b
  /\ fired = 1

\* A notification that merged nothing fired nothing.
C29_NothingMerged == op = "ws_notification" /\ ~RecordMerged /\ fired = 0

\* ------------------------------------- properties: the nested dispatch

\* The entries of the child array under key in the notification that has
\* just been handled that name the device id.
EntriesFor(key, id) ==
  SelectSeq(Children(arg["data"], key), LAMBDA d : "id" \in DOMAIN d /\ d["id"] = id)

\* The breaker record after the entries have been merged into it, one
\* after the other.
RECURSIVE BreakerAfter(_, _)
BreakerAfter(breaker, entries) ==
  IF entries = <<>> THEN breaker
  ELSE BreakerAfter(Update(breaker, BreakerMergeData(Head(entries), breaker),
                           BreakerUpdateKeys),
                    Tail(entries))

RECURSIVE CtAfter(_, _)
CtAfter(ct, entries) ==
  IF entries = <<>> THEN ct
  ELSE CtAfter(Update(ct, normalize_ct_energy(Head(entries), ct), CtUpdateKeys),
               Tail(entries))

\* C30: a hub or panel notification merges each nested breaker entry, and
\* for a hub each nested channel entry, into the record with the entry's
\* id, and leaves every record no entry names as it was, whatever the
\* other entries name; the parent's update is handed exactly the payload
\* fields that are not child arrays, and only when there is one.
C30_NestedDispatch ==
  ( /\ op = "ws_notification"
    /\ arg["modelName"] \in { "IotWhem", "ResidentialBreakerPanel" }
    /\ arg["data"] # NoDict
    /\ arg["modelId"] # NoId ) =>
    /\ \A id \in DOMAIN breakers :
         breakers[id] = BreakerAfter(prev.b[id], EntriesFor("ResidentialBreaker", id))
    /\ \A id \in DOMAIN cts :
         cts[id] = IF arg["modelName"] = "IotWhem"
                   THEN CtAfter(prev.c[id], EntriesFor("IotCt", id))
                   ELSE prev.c[id]
    /\ DOMAIN breakers = DOMAIN prev.b
    /\ DOMAIN cts = DOMAIN prev.c
    /\ IF ParentMerged
       THEN /\ handed = << [ id |-> arg["modelId"],
                             data |-> [ k \in OwnFields |-> arg["data"][k] ] ] >>
            /\ \A k \in ChildArrays(arg["modelName"]) : k \notin DOMAIN handed[1].data
       ELSE /\ handed = <<>>
            /\ whems = prev.w
            /\ panels = prev.p
    /\ \A id \in DOMAIN whems : DOMAIN whems[id] = DOMAIN prev.w[id]
    /\ \A id \in DOMAIN panels : DOMAIN panels[id] = DOMAIN prev.p[id]

\* A hub notification with its own field and two nested breaker entries,
\* the first for an unknown id: the second was merged and the hub was
\* handed its own field only.
C30_Witness ==
  /\ op = "ws_notification"
  /\ arg["modelName"] = "IotWhem"
  /\ "b1" \in DOMAIN breakers
  /\ Len(Children(arg["data"], "ResidentialBreaker")) = 2
  /\ breakers["b1"]["power"] = 1
  /\ prev.b["b1"]["power"] = 0
  /\ handed = << [ id |-> "w1", data |-> ("rmsVoltageA" :> 1) ] >>
  /\ whems["w1"]["rms_voltage_a"] = 1

\* A panel notification with a nested breaker entry was merged.
C30_PanelWitness ==
  /\ op = "ws_notification"
  /\ arg["modelName"] = "ResidentialBreakerPanel"
  /\ "b1" \in DOMAIN breakers
  /\ Len(Children(arg["data"], "ResidentialBreaker")) = 2
  /\ breakers["b1"]["power"] = 1
  /\ handed = << [ id |-> "p1", data |-> ("rmsVoltage" :> 1) ] >>

\* --------------------------------------- properties: the trip synthesis

\* The breaker payloads of the notification that has just been handled
\* that name the breaker id: the direct payload, or the nested entries.
PayloadsFor(id) ==
  IF arg["modelName"] = "ResidentialBreaker"
  THEN IF arg["modelId"] = id THEN << arg["data"] >> ELSE <<>>
  ELSE EntriesFor("ResidentialBreaker", id)

\* C31: a breaker payload that signals a remote trip is merged, into a
\* breaker that cannot be turned on remotely, with the software-trip state
\* when it carries no current state and with its own current state when
\* it carries one; into a breaker that can be turned on remotely no state
\* is synthesized: the current state is the payload's, or stays.
C31_TripSynthesis ==
  ( /\ op = "ws_notification"
    /\ arg["modelName"] \in KnownModels
    /\ arg["data"] # NoDict
    /\ arg["modelId"] # NoId ) =>
    \A id \in DOMAIN breakers :
      Len(PayloadsFor(id)) = 1 =>
        LET d == PayloadsFor(id)[1]
            trip == "remoteTrip" \in DOMAIN d /\ d["remoteTrip"] = TRUE
        IN breakers[id]["current_state"] =
             IF "currentState" \in DOMAIN d THEN d["currentState"]
             ELSE IF trip /\ ~prev.b[id]["can_remote_on"] THEN STATE_SOFTWARE_TRIP
             ELSE prev.b[id]["current_state"]

\* A remote trip without a current state was merged into a breaker that
\* cannot be turned on remotely.
C31_Witness ==
  /\ op = "ws_notification"
  /\ arg["modelName"] = "ResidentialBreaker"
  /\ arg["data"] = ("remoteTrip" :> TRUE)
  /\ "b1" \in DOMAIN breakers
  /\ ~prev.b["b1"]["can_remote_on"]
  /\ prev.b["b1"]["current_state"] = "ManualON"
  /\ breakers["b1"]["current_state"] = STATE_SOFTWARE_TRIP
  /\ breakers["b1"]["remote_trip"] = TRUE

\* A remote trip was merged into a breaker that can be turned on remotely.
C31_NoSynthesis ==
  /\ op = "ws_notification"
  /\ arg["data"] = ("remoteTrip" :> TRUE)
  /\ "b1" \in DOMAIN breakers
  /\ prev.b["b1"]["can_remote_on"]
  /\ breakers["b1"]["current_state"] = "ManualON"
  /\ breakers["b1"]["remote_trip"] = TRUE

\* ------------------------------------- properties: the housekeeping timers

\* One of the refresh, watchdog and bandwidth-keepalive timers is active.
TimerActive == keepalive_unsub \/ watchdog_unsub \/ bandwidth_unsub

\* C32: the refresh, watchdog and bandwidth-keepalive timers are active
\* only while the manager holds a connection, the bandwidth keepalive
\* only with a hub in the store, and none is active once the disconnect
\* handler, the watchdog or a refresh whose connection attempt failed has
\* ended.
C32_TimersFollowConnection ==
  /\ TimerActive => ws # None
  /\ bandwidth_unsub => whems # NoDict
  /\ op \in { "ws_disconnect", "watchdog_done" } => ~TimerActive
  /\ (op \in { "connect_refused", "connect_raised" } /\ arg.kind = "refresh") => ~TimerActive

\* ------------------------------------- properties: the second shutdown

\* The handler that ran found the manager as a completed shutdown leaves
\* it: its connection disconnected, no connection reference and no remover.
AfterShutdown ==
  /\ prev.ws = None
  /\ prev.removers = << None, None >>
  /\ prev.conns # <<>>
  /\ \A c \in DOMAIN prev.conns : prev.conns[c].state = "closed"

\* The second shutdown calls no remover and disconnects nothing.
SecondShutdownQuiet ==
  /\ (op = "shutdown" /\ AfterShutdown) =>
       /\ ret = 0
       /\ conns = prev.conns
       /\ ws = None
       /\ \A i \in DOMAIN tasks : tasks[i].pc # "disconnecting"
  /\ (op \in { "shutdown_called", "shutdown_done" } /\ AfterShutdown) =>
       /\ conns = prev.conns
       /\ ws = None
       /\ \A i \in DOMAIN tasks : tasks[i].pc # "disconnecting"

\* C33: a shutdown called on a manager that a completed shutdown has left
\* raises no error, calls no remover and disconnects nothing.
C33_ShutdownIdempotent ==
  /\ SecondShutdownQuiet
  /\ ~(op = "shutdown_raised" /\ AfterShutdown)

\* A second shutdown of a manager that was connected has ended.
C33_Witness ==
  /\ op = "shutdown_done"
  /\ AfterShutdown
  /\ conns # <<>>
  /\ \A c \in DOMAIN conns : conns[c].state = "closed"
  /\ arg.calls = ShutdownPlan
  /\ tasks = <<>>

\* The first shutdown of a connected manager called both removers.
C33_FirstShutdown == op = "shutdown" /\ ret = 2 /\ prev.ws # None

\* ------------------------------- properties: discovery's bandwidth reset

\* The call that resets the bandwidth mode of the device a fetch is for.
ResetFor(f) ==
  IF f.call = "get_panel_breakers" THEN Fetch("set_panel_bandwidth", f.id)
  ELSE Fetch("set_whem_bandwidth", f.id)

\* The fetches of a device's breakers and channels.
DependentFetches == { "get_whem_breakers", "get_cts", "get_panel_breakers" }

\* C34: in a discovery, every fetch of a hub's or a panel's breakers or
\* channels comes after a bandwidth reset call for that device, and every
\* hub and panel a discovery has stored had its reset call.
C34_DiscoveryBandwidthReset ==
  op = "discover_devices" =>
    /\ \A j \in DOMAIN ret.calls :
         ret.calls[j].call \in DependentFetches =>
           \E i \in 1..(j - 1) : ret.calls[i] = ResetFor(ret.calls[j])
    /\ ret.result = "ok" =>
         /\ \A w \in DOMAIN whems :
              \E i \in DOMAIN ret.calls : ret.calls[i] = Fetch("set_whem_bandwidth", w)
         /\ \A q \in DOMAIN panels :
              \E i \in DOMAIN ret.calls : ret.calls[i] = Fetch("set_panel_bandwidth", q)

\* A discovery stored a hub and a panel and fetched their breakers.
C34_Discovered ==
  /\ op = "discover_devices"
  /\ ret.result = "ok"
  /\ "w1" \in DOMAIN whems
  /\ "p1" \in DOMAIN panels
  /\ \E j \in DOMAIN ret.calls : ret.calls[j] = Fetch("get_whem_breakers", "w1")

\* ------------------------------ properties: the connection is not abandoned

\* A reconnection sequence is executing or a reconnection task is scheduled.
ReconnectionUnderWay ==
  reconnecting \/ \E i \in DOMAIN tasks : tasks[i].kind = "reconnect"

\* The disconnect handler or the watchdog has cleared the connection.
ConnectionLost == op \in { "ws_disconnect", "watchdog_done" }

\* The connection attempt of a proactive refresh has failed.
RefreshFailed ==
  op \in { "connect_refused", "connect_raised" } /\ arg.kind = "refresh"

\* A lost connection always has a reconnection under way.
LostIsReconnected == ConnectionLost => ReconnectionUnderWay

\* C35: when the disconnect handler or the watchdog has cleared the
\* connection, or the connection attempt of a proactive refresh has failed,
\* a reconnection sequence is executing or a reconnection task is scheduled.
C35_NoSilentAbandonment ==
  (ConnectionLost \/ RefreshFailed) => ReconnectionUnderWay

\* ------------------------------- properties: one live connection at most

\* The handlers that clear or replace the connection reference.
ReferenceWriters ==
  { "refresh_resumed", "watchdog_done", "ws_disconnect", "connect_refused",
    "reconnect_connecting" }

\* A connection that is open with a handler of the manager registered on
\* it while the manager's reference is elsewhere.
Orphaned(c) ==
  /\ conns[c].state = "open"
  /\ conns[c].on_notification \/ conns[c].on_disconnect
  /\ ws # c

\* C36: when a handler has cleared or replaced the connection reference,
\* the connection it referred to is disconnected, and no open connection
\* with a registered handler is ever outside the manager's reference.
C36_OneLiveConnection ==
  /\ (op \in ReferenceWriters /\ prev.ws # None /\ ws # prev.ws) =>
       conns[prev.ws].state = "closed"
  /\ \A c \in DOMAIN conns : ~Orphaned(c)

\* The part of C36 about orphaned connections alone.
C36_NoOrphan == \A c \in DOMAIN conns : ~Orphaned(c)

\* A watchdog that resumed after its awaited disconnect has cleared the
\* reference to a newer connection, open with the manager's handlers on it.
C36_NewerCleared ==
  /\ op = "watchdog_done"
  /\ prev.ws # None
  /\ prev.ws # arg.conn
  /\ conns[prev.ws].state = "open"
  /\ conns[prev.ws].on_notification
  /\ ws = None

\* ------------------------------ properties: a disconnect during connect()

\* connect() has resumed after its bandwidth and subscribe calls and found
\* the connection reference cleared.
ResumedOnCleared ==
  /\ op \in { "subscribed", "subscribe_broke" }
  /\ prev.ws = None
  /\ arg.kind \in { "reconnect", "refresh" }

\* C37: a connect() of a reconnection sequence or of a refresh that finds
\* the connection reference cleared when it resumes among its bandwidth and
\* subscribe calls makes no subscribe call on it and returns, and the
\* sequence is then over or at its next attempt with the in-progress flag
\* as its task requires.
C37_DisconnectDuringConnect ==
  ResumedOnCleared =>
    /\ op = "subscribed"
    /\ Running(tasks) = {} => ~reconnecting

\* The disconnect handler has run while a connect() was suspended among
\* its bandwidth and subscribe calls.
C37_DisconnectedWhileConnecting ==
  /\ op = "ws_disconnect"
  /\ \E i \in DOMAIN tasks :
       tasks[i].pc = "subscribing" /\ tasks[i].kind \in { "reconnect", "refresh" }

\* ------------------------------------ properties: shutdown is final

\* C38: once a shutdown has completed the manager holds no connection, no
\* connection is open or being opened, no reconnection sequence makes a
\* connection attempt and no housekeeping timer is active.
C38_ShutdownFinal ==
  shut_down =>
    /\ ws = None
    /\ \A c \in DOMAIN conns : conns[c].state = "closed"
    /\ op # "reconnect_connecting"
    /\ TimersStopped

\* A reconnection sequence that was in its delay when the shutdown began
\* has connected after the shutdown completed.
C38_ReconnectedAfterShutdown ==
  /\ shut_down
  /\ op = "subscribed"
  /\ arg.kind = "reconnect"
  /\ ws # None
  /\ conns[ws].state = "open"
  /\ keepalive_unsub

\* ------------------------------ properties: the lifetime cache over time

\* Every key the cache held before the operation is still there with a
\* value that is no lower.
CacheGrew ==
  \A k \in DOMAIN prev.stored :
    /\ k \in DOMAIN lifetime_store
    /\ lifetime_store[k] >= prev.stored[k]

\* C39: across corrections and saves of the lifetime energy, no entry of
\* the persisted lifetime cache decreases and none is removed.
C39_LifetimeCacheMonotonic ==
  op \in { "correct_energy_values", "save_lifetime_energy" } => CacheGrew

\* A save has lowered a cache entry to the device's reading.
C39_SaveLowered ==
  /\ op = "save_lifetime_energy"
  /\ \E k \in DOMAIN prev.stored :
       k \in DOMAIN lifetime_store /\ lifetime_store[k] < prev.stored[k]

\* ------------------------------ properties: baselines of unknown energy

\* snapshot_daily_baselines has just run: at midnight, or in a load that
\* found no baselines of today.
Snapshotted ==
  \/ op = "handle_midnight"
  \/ op = "load_daily_baselines" /\ writes # <<>>

\* The baseline entry under key is as it was before the operation.
BaselineKept(key) ==
  IF key \in DOMAIN prev.baselines
  THEN key \in DOMAIN daily_baselines /\ daily_baselines[key] = prev.baselines[key]
  ELSE key \notin DOMAIN daily_baselines

\* A breaker whose lifetime energy is unknown keeps its baseline entry.
UnknownBreakersKept ==
  Snapshotted =>
    \A id \in DOMAIN breakers :
      breakers[id]["energy_consumption"] = None => BaselineKept(id)

\* C40: the snapshot leaves the baseline entry of a breaker whose lifetime
\* energy is unknown, and of a Ct whose consumption counters are both
\* unknown, as it was: no baseline is recorded for them.
C40_BaselinesFromKnownEnergy ==
  /\ UnknownBreakersKept
  /\ Snapshotted =>
       \A id \in DOMAIN cts :
         (cts[id]["energy_consumption"] = None /\ cts[id]["energy_consumption_2"] = None)
           => BaselineKept(CtKey(id))

\* A snapshot has recorded a zero baseline for a Ct without readings.
C40_ZeroBaseline ==
  /\ Snapshotted
  /\ "1" \in DOMAIN cts
  /\ cts["1"]["energy_consumption"] = None
  /\ cts["1"]["energy_consumption_2"] = None
  /\ CtKey("1") \notin DOMAIN prev.baselines
  /\ CtKey("1") \in DOMAIN daily_baselines
  /\ daily_baselines[CtKey("1")] = 0

====
